---------------------------- MODULE Spec2Model ----------------------------
(***************************************************************************)
(* State-machine model of the moenet-agent reconciliation core:            *)
(*   - the BIRD control-socket pool   (package bird,  Pool)                *)
(*   - the circuit breaker            (package circuitbreaker)             *)
(*   - the session-sync task          (package task,  SessionSync)         *)
(*   - the mesh-driven tasks          (package task,  BirdConfigSync,      *)
(*                                     IBGPSync, MeshSync, RTTMeasurement) *)
(* Each component has its own next-state relation and specification; the   *)
(* variables of the other components stay at their initial values.         *)
(***************************************************************************)
EXTENDS Integers, Sequences, FiniteSets, TLC

(***************************************************************************)
(* Bounds of the model.                                                    *)
(***************************************************************************)
\* number of goroutines calling Pool.Execute concurrently
NumCallers == 2
\* poolSize argument of NewPool (connections opened eagerly)
PoolSize == 1
\* maxSize argument of NewPool (capacity of the connections channel)
MaxSize == 1
\* number of goroutines calling CircuitBreaker.Execute concurrently
NumCbCallers == 3
\* Config.FailureThreshold, Config.SuccessThreshold, Config.OpenDuration (in
\* clock ticks) of the breaker under test, scaled down from the defaults
FailureThreshold == 2
SuccessThreshold == 2
OpenDuration == 2
\* Config.HalfOpenMaxRequests (default)
HalfOpenMaxRequests == 1
\* the clock stops advancing here
MaxTime == 5
\* RetryConfig values handed to httpclient.New are drawn from 0..bound; the
\* time unit is 100 ms and multipliers are whole numbers, so the float64
\* arithmetic of calculateDelay is exact
MaxRetriesCfg == 2
MaxInitialDelayCfg == 1
MaxMaxDelayCfg == 3
MaxMultiplierCfg == 2
\* most lines a BIRD response carries before the line that ends it
MaxContLines == 2
\* commands sent over one pooled connection, one after the other
MaxCmds == 2
\* continuation lines of one reply of the daemon
MaxRows == 2
\* shutdownTimeout (30 s) in ticks of the shutdown clock
ShutdownTicks == 2
\* RetryConfig defaults applied by New to zero values (delays in units of 100 ms)
DefaultMaxRetries == 3
DefaultInitialDelay == 10
DefaultMaxDelay == 300
DefaultMultiplier == 2

VARIABLES
    \* ---- BIRD pool (Pool struct) ----
    connections,   \* p.connections: buffered channel of idle connections (FIFO)
    chanClosed,    \* close(p.connections) has been executed
    closed,        \* p.closed
    open,          \* connections whose socket is open (net.Conn not yet closed)
    held,          \* per caller: the *Conn held by executeWithRetry (Nil = none / nil)
    pc,            \* per caller: position inside Execute
    retries,       \* per caller: the retries argument of the running executeWithRetry
    via,           \* per caller: how the held connection was obtained
    closePc,       \* position of the goroutine running Pool.Close
    lateRel,       \* history: release(conn) has run after Close returned
    lateExec,      \* history: per caller, its Execute was called after Close returned
    \* ---- circuit breaker (CircuitBreaker struct) ----
    cbState,       \* cb.state
    failureCount,  \* cb.failureCount
    successCount,  \* cb.successCount
    lastFailure,   \* cb.lastFailure
    halfOpenCount, \* cb.halfOpenCount
    now,           \* the wall clock read by time.Now()
    cbCall,        \* per caller: position inside Execute ("idle", or permitted)
    allowRes,      \* per caller: what its latest Allow() returned
    consec,        \* history: failures recorded since the last success, Reset or closing
    hoSucc,        \* history: successes recorded since HalfOpen was entered
    tripTime,      \* history: clock value of the latest transition to Open
    execOut,       \* history: per caller, what its latest Execute did and returned
    \* ---- retrying HTTP client (httpclient.Client and one call of Do) ----
    hCfg,          \* c.config after New applied the defaults
    hGetBody,      \* req.GetBody != nil
    hPc,           \* position inside Do
    hAttempt,      \* the loop variable attempt
    hLast,         \* outcome of the latest httpClient.Do: <<"err", 0>> or <<"resp", status>>
    hTimer,        \* the time.After(delay) timer of the pending wait has fired
    hCancelAt,     \* position of Do when the request's context was cancelled
    hRet,          \* what Do returned: <<"resp", status>> or <<error, status of resp>>
    hRequests,     \* history: number of calls of httpClient.Do
    hWaits,        \* history: the delays Do waited for, in order
    \* ---- one call of Pool.Configure ----
    cfgPc,         \* "idle", or how Execute("configure") ended
    cfgResp,       \* the response string Execute returned
    cfgRet,        \* what Configure returned: "nil" or "err"
    \* ---- session-sync task (SessionSync struct and what it drives) ----
    sessions,      \* s.sessions: UUID -> status of the session last pulled (or Absent)
    remote,        \* remoteMap of the running iteration
    todo,          \* fetched sessions the processing loop has not reached yet
    syncPc,        \* position of the task: "idle" between iterations, "process" inside
    ifaces,        \* sessions whose tunnel interface exists in the kernel
    peerFiles,     \* sessions whose peer config file exists on disk
    fwPorts,       \* sessions whose UDP listen port is open in the firewall
    reports,       \* status reports sent to the CP in the latest iteration
    log,           \* executor steps run in the latest iteration, with their outcome
    orphans,       \* UUIDs the latest iteration found locally but not in the fetch
    lastSync,      \* outcome of the latest Sync call
    streak,        \* history: per UUID, kind and length of its run of observations
    \* ---- bird-config-sync task (BirdConfigSync struct) ----
    lastConfigHash, \* s.lastConfigHash ("" until a bundle has been applied)
    bcsCur,        \* history: what the latest iteration with a fetched bundle did
    bcsPrev,       \* history: what the iteration with the fetch before that did
    bcsPeers,      \* history: birdConfig.IBGPPeers of the latest fetched bundle
    bcsRet,        \* what the latest Sync call returned: "nil", "fetch" or "render"
    \* ---- iBGP-sync task (IBGPSync struct and its directory) ----
    ibgpPeers,     \* i.peers: node ids that are keys of the map
    ibgpFiles,     \* node ids N whose ibgp_N.conf exists in ibgpConfDir
    ibgpIter,      \* history: what the latest IBGPSync.Sync call did
    \* ---- mesh-sync task (MeshSync struct and the kernel) ----
    meshPeers,     \* m.peers: node ids that are keys of the map
    meshIfaces,    \* node ids N whose interface wg_mesh_N exists
    meshPrev,      \* history: m.peers before the latest iteration with a snapshot
    meshFailed,    \* history: node ids whose executor call failed in that iteration
    meshRan,       \* history: an iteration has obtained a snapshot
    \* ---- RTT task (RTTMeasurement struct) ----
    meshTargets,   \* r.meshTargets (as a set of addresses)
    rttResults,    \* r.results: the targets that have a stored sample
    rttMeasured,   \* history: targets measured by the latest measureAll
    rttBatch,      \* history: targets of the samples in the latest batch sent
    \* ---- one pooled connection and its replies (Conn struct) ----
    reader,        \* c.reader: lines written by BIRD and not yet read, each <<command, line>>
    rdReply,       \* history: the reply BIRD wrote to the latest command
    rdResult,      \* what the latest executeWithRetry returned as result
    cmdSeq,        \* history: number of commands written to the connection
    rdPc,          \* "idle", "sent" (command written), "ok" or "err" (returned)
    \* ---- main: background tasks and the shutdown path ----
    ctxDone,       \* the root context has been cancelled
    taskPc,        \* per task, where its Run is: "select", "sleep", "work", "returned"
    sdPc,          \* main: "serving", "cancelled", "wait", "return" or "stopped"
    sdClock,       \* ticks since shutdownCtx was created
    birdPoolClosed, \* the deferred birdPool.Close() has run
    \* ---- maintenance mode (maintenance.State struct) ----
    enabled,       \* s.enabled
    enteredAt,     \* s.enteredAt (0 is the zero time.Time)
    disabledPeers, \* s.disabledPeers (as the set of its names; {} for nil)
    mtNow,         \* time.Now()
    mtCall,        \* history: the latest call, <<name, s.enabled when it was made>>
    mtBefore,      \* history: <<enabled, enteredAt, disabledPeers>> before that call
    mtCmds,        \* history: number of BIRD commands that call issued
    \* ---- generated config files on disk ----
    fileState,     \* per target file: "absent", "old", "new", "empty" or "partial"
    rnCall,        \* history: the latest render call, <<target, outcome>>
    rnBefore,      \* history: the state of its target file before that call
    \* ---- heartbeat task (Heartbeat struct) ----
    cachedIP,      \* h.cachedIPv4 and h.cachedIPv6, by family ("" when unknown)
    reportedIP,    \* h.reportedIPv4 and h.reportedIPv6, by family
    cpIP,          \* history: per family, the address of the last heartbeat the
                   \* CP received that carried one
    hbCarried,     \* history: PublicIPv4 / PublicIPv6 of the latest heartbeat
    hbChanged      \* history: per family, whether the cached address differed
                   \* from cpIP when the latest heartbeat was built

poolVars == <<connections, chanClosed, closed, open, held, pc, retries, via, closePc,
              lateRel, lateExec>>

cbVars == <<cbState, failureCount, successCount, lastFailure, halfOpenCount,
            now, cbCall, allowRes, consec, hoSucc, tripTime>>

syncVars == <<sessions, remote, todo, syncPc, ifaces, peerFiles, fwPorts,
              reports, log, orphans, lastSync, streak>>

\* history of CircuitBreaker.Execute calls
execVars == <<execOut>>

httpVars == <<hCfg, hGetBody, hPc, hAttempt, hLast, hTimer, hCancelAt, hRet,
              hRequests, hWaits>>

configureVars == <<cfgPc, cfgResp, cfgRet>>

birdVars == <<lastConfigHash, bcsCur, bcsPrev, bcsPeers, bcsRet>>

ibgpVars == <<ibgpPeers, ibgpFiles, ibgpIter>>

meshVars == <<meshPeers, meshIfaces, meshPrev, meshFailed, meshRan>>

rttVars == <<meshTargets, rttResults, rttMeasured, rttBatch>>

\* the variables of the tasks driven by the mesh state
meshDrivenVars == <<birdVars, ibgpVars, meshVars, rttVars>>

replyVars == <<reader, rdReply, rdResult, cmdSeq, rdPc>>

shutdownVars == <<ctxDone, taskPc, sdPc, sdClock, birdPoolClosed>>

maintVars == <<enabled, enteredAt, disabledPeers, mtNow, mtCall, mtBefore, mtCmds>>

renderVars == <<fileState, rnCall, rnBefore>>

hbVars == <<cachedIP, reportedIP, cpIP, hbCarried, hbChanged>>

\* the variables of the agent's connection replies and life cycle
agentVars == <<replyVars, shutdownVars, maintVars, renderVars, hbVars>>

vars == <<poolVars, cbVars, syncVars, execVars, httpVars, configureVars,
         meshDrivenVars, agentVars>>

\* the variables of the other components, left alone by each component's steps
notPool == <<cbVars, syncVars, execVars, httpVars, configureVars,
    meshDrivenVars, agentVars>>

notBreaker == <<poolVars, syncVars, execVars, httpVars, configureVars,
    meshDrivenVars, agentVars>>

notSync == <<poolVars, cbVars, execVars, httpVars, configureVars,
    meshDrivenVars, agentVars>>

notExec == <<poolVars, syncVars, httpVars, configureVars,
    meshDrivenVars, agentVars>>

notConfigure == <<poolVars, cbVars, syncVars, execVars, httpVars,
    meshDrivenVars, agentVars>>

notHttp == <<poolVars, cbVars, syncVars, execVars, configureVars,
    meshDrivenVars, agentVars>>

notMeshDriven == <<poolVars, cbVars, syncVars, execVars, httpVars, configureVars,
    agentVars>>

notAgent == <<poolVars, cbVars, syncVars, execVars, httpVars, configureVars,
    meshDrivenVars>>

Callers == 1..NumCallers
Nil == 0
\* identities of *Conn objects; an identity is reused once its socket is closed
ConnIds == 1..(NumCallers + MaxSize + PoolSize)

SeqToSet(s) == {s[i] : i \in DOMAIN s}

Min(S) == CHOOSE x \in S : \A y \in S : x <= y

(***************************************************************************)
(* Channel primitives of p.connections (a Go buffered channel).            *)
(***************************************************************************)
\* a receive can proceed: an element is buffered, or the channel is closed
\* (a closed, drained channel yields the zero value nil)
ChanRecvReady == Len(connections) > 0 \/ chanClosed

\* the value a receive yields
ChanRecvValue == IF Len(connections) > 0 THEN Head(connections) ELSE Nil

\* the buffer after a receive, mutated: the element is handed out but stays idle
ChanAfterRecv_Keep == connections

\* the buffer after a receive
ChanAfterRecv == IF Len(connections) > 0 THEN Tail(connections) ELSE connections

\* connections a caller currently has checked out
InUse == {held[c] : c \in Callers} \ {Nil}

\* newConn: a fresh *Conn object (identity not otherwise live)
FreshConn == Min(ConnIds \ (open \cup InUse \cup SeqToSet(connections)))

(***************************************************************************)
(* NewPool: poolSize connections are dialled and put in the channel.       *)
(***************************************************************************)
InitPool ==
    /\ connections = [i \in 1..PoolSize |-> i]
    /\ chanClosed = FALSE
    /\ closed = FALSE
    /\ open = 1..PoolSize
    /\ held = [c \in Callers |-> Nil]
    /\ pc = [c \in Callers |-> "idle"]
    /\ retries = [c \in Callers |-> 0]
    /\ via = [c \in Callers |-> "none"]
    /\ closePc = "idle"
    /\ lateRel = FALSE
    /\ lateExec = [c \in Callers |-> FALSE]

\* a nil-pointer dereference panics the process: nothing runs afterwards
Panicked == \E c \in Callers : pc[c] = "panic"

\* Execute(cmd): executeWithRetry(cmd, 1) starts with acquire()
ExecuteStart(c) ==
    /\ pc[c] = "idle"
    /\ pc' = [pc EXCEPT ![c] = "select"]
    /\ retries' = [retries EXCEPT ![c] = 1]
    /\ lateExec' = [lateExec EXCEPT ![c] = (closePc = "done")]
    /\ UNCHANGED <<connections, chanClosed, closed, open, held, via, closePc,
                 lateRel>>

\* acquire: select { case conn := <-p.connections: return conn; default: ... }
AcquireSelect(c) ==
    /\ pc[c] = "select"
    /\ \/ /\ ChanRecvReady
          /\ held' = [held EXCEPT ![c] = ChanRecvValue]
          /\ via' = [via EXCEPT ![c] = "chan"]
          /\ connections' = ChanAfterRecv
          /\ pc' = [pc EXCEPT ![c] = "io"]
       \/ /\ ~ChanRecvReady
          /\ pc' = [pc EXCEPT ![c] = "check"]
          /\ UNCHANGED <<held, via, connections>>
    /\ UNCHANGED <<chanClosed, closed, open, retries, closePc,
                 lateRel, lateExec>>

\* acquire, default branch: p.mu.Lock(); if len(p.connections) < p.maxSize
\* { Unlock; return p.newConn() }; Unlock; return <-p.connections
AcquireCheck(c) ==
    /\ pc[c] = "check"
    /\ \/ /\ Len(connections) < MaxSize
          /\ pc' = [pc EXCEPT ![c] = "dial"]
       \/ /\ ~(Len(connections) < MaxSize)
          /\ pc' = [pc EXCEPT ![c] = "wait"]
    /\ UNCHANGED <<connections, chanClosed, closed, open, held, retries, via, closePc,
                 lateRel, lateExec>>

\* acquire: return p.newConn() -- the dial succeeds or fails
AcquireDial(c) ==
    /\ pc[c] = "dial"
    /\ \/ /\ held' = [held EXCEPT ![c] = FreshConn]
          /\ open' = open \cup {FreshConn}
          /\ via' = [via EXCEPT ![c] = "dial"]
          /\ pc' = [pc EXCEPT ![c] = "io"]
       \/ \* "failed to acquire connection": Execute returns the error
          /\ pc' = [pc EXCEPT ![c] = "idle"]
          /\ UNCHANGED <<held, open, via>>
    /\ UNCHANGED <<connections, chanClosed, closed, retries, closePc,
                 lateRel, lateExec>>

\* acquire: return <-p.connections, nil (blocking receive)
AcquireWait(c) ==
    /\ pc[c] = "wait"
    /\ ChanRecvReady
    /\ held' = [held EXCEPT ![c] = ChanRecvValue]
    /\ via' = [via EXCEPT ![c] = "chan"]
    /\ connections' = ChanAfterRecv
    /\ pc' = [pc EXCEPT ![c] = "io"]
    /\ UNCHANGED <<chanClosed, closed, open, retries, closePc,
                 lateRel, lateExec>>

\* release(conn) without the p.closed test: only a full channel closes the socket
ReleaseEffect_NoClosedTest(c) ==
    IF Len(connections) >= MaxSize
    THEN /\ open' = open \ {held[c]}
         /\ UNCHANGED connections
    ELSE /\ connections' = Append(connections, held[c])
         /\ UNCHANGED open

\* release(conn): under p.mu -- closed pool or full channel closes the socket
ReleaseEffect(c) ==
    IF closed \/ Len(connections) >= MaxSize
    THEN /\ open' = open \ {held[c]}
         /\ UNCHANGED connections
    ELSE /\ connections' = Append(connections, held[c])
         /\ UNCHANGED open

\* executeWithRetry after acquire: write the command, read the response
ExecIO(c) ==
    /\ pc[c] = "io"
    /\ \/ \* conn == nil: conn.conn dereferences a nil pointer
          /\ held[c] = Nil
          /\ pc' = [pc EXCEPT ![c] = "panic"]
          /\ UNCHANGED <<connections, open, held, retries, via, lateRel>>
       \/ \* write and read succeed: release(conn), return result
          /\ held[c] # Nil
          /\ ReleaseEffect(c)
          /\ lateRel' = (lateRel \/ closePc = "done")
          /\ held' = [held EXCEPT ![c] = Nil]
          /\ via' = [via EXCEPT ![c] = "none"]
          /\ pc' = [pc EXCEPT ![c] = "idle"]
          /\ UNCHANGED retries
       \/ \* write or read error with retries > 0: discard(conn), retry
          /\ held[c] # Nil
          /\ retries[c] > 0
          /\ open' = open \ {held[c]}
          /\ held' = [held EXCEPT ![c] = Nil]
          /\ via' = [via EXCEPT ![c] = "none"]
          /\ retries' = [retries EXCEPT ![c] = retries[c] - 1]
          /\ pc' = [pc EXCEPT ![c] = "select"]
          /\ UNCHANGED <<connections, lateRel>>
       \/ \* write or read error with retries = 0: discard(conn), return error
          /\ held[c] # Nil
          /\ retries[c] = 0
          /\ open' = open \ {held[c]}
          /\ held' = [held EXCEPT ![c] = Nil]
          /\ via' = [via EXCEPT ![c] = "none"]
          /\ pc' = [pc EXCEPT ![c] = "idle"]
          /\ UNCHANGED <<connections, retries, lateRel>>
    /\ UNCHANGED <<chanClosed, closed, closePc, lateExec>>

\* Close: p.mu.Lock(); p.closed = true; p.mu.Unlock()
CloseMark ==
    /\ closePc = "idle"
    /\ closed' = TRUE
    /\ closePc' = "marked"
    /\ UNCHANGED <<connections, chanClosed, open, held, pc, retries, via,
                 lateRel, lateExec>>

\* Close: close(p.connections)
CloseChan ==
    /\ closePc = "marked"
    /\ chanClosed' = TRUE
    /\ closePc' = "drain"
    /\ UNCHANGED <<connections, closed, open, held, pc, retries, via,
                 lateRel, lateExec>>

\* Close's drain loop, mutated: the idle connections are dropped unclosed
CloseDrain_NoClose ==
    /\ closePc = "drain"
    /\ \/ /\ Len(connections) > 0
          /\ connections' = Tail(connections)
          /\ UNCHANGED closePc
       \/ /\ Len(connections) = 0
          /\ closePc' = "done"
          /\ UNCHANGED connections
    /\ UNCHANGED <<chanClosed, closed, open, held, pc, retries, via, lateRel, lateExec>>

\* Close: for conn := range p.connections { conn.conn.Close() }
CloseDrain ==
    /\ closePc = "drain"
    /\ \/ /\ Len(connections) > 0
          /\ open' = open \ {Head(connections)}
          /\ connections' = Tail(connections)
          /\ UNCHANGED closePc
       \/ /\ Len(connections) = 0
          /\ closePc' = "done"
          /\ UNCHANGED <<connections, open>>
    /\ UNCHANGED <<chanClosed, closed, held, pc, retries, via,
                 lateRel, lateExec>>

NextPool ==
    \/ \E c \in Callers : ~Panicked /\ ExecuteStart(c) /\ UNCHANGED notPool
    \/ \E c \in Callers : ~Panicked /\ AcquireSelect(c) /\ UNCHANGED notPool
    \/ \E c \in Callers : ~Panicked /\ AcquireCheck(c) /\ UNCHANGED notPool
    \/ \E c \in Callers : ~Panicked /\ AcquireDial(c) /\ UNCHANGED notPool
    \/ \E c \in Callers : ~Panicked /\ AcquireWait(c) /\ UNCHANGED notPool
    \/ \E c \in Callers : ~Panicked /\ ExecIO(c) /\ UNCHANGED notPool
    \/ ~Panicked /\ CloseMark /\ UNCHANGED notPool
    \/ ~Panicked /\ CloseChan /\ UNCHANGED notPool
    \/ ~Panicked /\ CloseDrain /\ UNCHANGED notPool

(***************************************************************************)
(* Circuit breaker.                                                        *)
(***************************************************************************)
CbCallers == 1..NumCbCallers

\* the zero time.Time of a breaker that has recorded no failure
ZeroTime == 0 - OpenDuration - 1

\* New(config): closed, all counters zero
InitBreaker ==
    /\ cbState = "closed"
    /\ failureCount = 0
    /\ successCount = 0
    /\ lastFailure = ZeroTime
    /\ halfOpenCount = 0
    /\ now = 0
    /\ cbCall = [k \in CbCallers |-> "idle"]
    /\ allowRes = [k \in CbCallers |-> "none"]
    /\ consec = 0
    /\ hoSucc = 0
    /\ tripTime = ZeroTime

\* history bookkeeping: calls permitted during a HalfOpen period ("probe")
\* stop counting as probes of it once the breaker leaves HalfOpen
LeaveHalfOpen(calls) ==
    [k \in CbCallers |-> IF calls[k] = "probe" THEN "inflight" ELSE calls[k]]

\* now.After(cb.lastFailure.Add(cb.config.OpenDuration)), mutated: not before
OpenElapsed_NotBefore == now >= lastFailure + OpenDuration

\* now.After(cb.lastFailure.Add(cb.config.OpenDuration))
OpenElapsed == now > lastFailure + OpenDuration

\* Execute: cb.Allow()
Allow(k) ==
    /\ cbCall[k] = "idle"
    /\ \/ /\ cbState = "closed"
          /\ allowRes' = [allowRes EXCEPT ![k] = "nil"]
          /\ cbCall' = [cbCall EXCEPT ![k] = "inflight"]
          /\ UNCHANGED <<cbState, halfOpenCount, successCount, hoSucc>>
       \/ /\ cbState = "open"
          /\ OpenElapsed
          /\ cbState' = "halfopen"
          /\ halfOpenCount' = 0
          /\ successCount' = 0
          /\ hoSucc' = 0
          /\ allowRes' = [allowRes EXCEPT ![k] = "nil"]
          /\ cbCall' = [cbCall EXCEPT ![k] = "probe"]
       \/ /\ cbState = "open"
          /\ ~OpenElapsed
          /\ allowRes' = [allowRes EXCEPT ![k] = "ErrCircuitOpen"]
          /\ UNCHANGED <<cbState, halfOpenCount, successCount, hoSucc, cbCall>>
       \/ /\ cbState = "halfopen"
          /\ halfOpenCount >= HalfOpenMaxRequests
          /\ allowRes' = [allowRes EXCEPT ![k] = "ErrTooManyRequests"]
          /\ UNCHANGED <<cbState, halfOpenCount, successCount, hoSucc, cbCall>>
       \/ /\ cbState = "halfopen"
          /\ halfOpenCount < HalfOpenMaxRequests
          /\ halfOpenCount' = halfOpenCount + 1
          /\ allowRes' = [allowRes EXCEPT ![k] = "nil"]
          /\ cbCall' = [cbCall EXCEPT ![k] = "probe"]
          /\ UNCHANGED <<cbState, successCount, hoSucc>>
    /\ UNCHANGED <<failureCount, lastFailure, now, consec, tripTime>>

\* RecordSuccess in StateClosed, mutated: the failure count is kept
ClosedSuccessCount_Keep == failureCount

\* RecordSuccess in StateClosed: cb.failureCount = 0
ClosedSuccessCount == 0

\* RecordSuccess in StateHalfOpen, mutated: closes one success late
HalfOpenCloses_Late(n) == n > SuccessThreshold

\* RecordSuccess in StateHalfOpen: cb.successCount >= cb.config.SuccessThreshold
HalfOpenCloses(n) == n >= SuccessThreshold

\* Execute: fn() returned nil; cb.RecordSuccess()
RecordSuccess(k) ==
    /\ cbCall[k] # "idle"
    /\ \/ /\ cbState = "closed"
          /\ failureCount' = ClosedSuccessCount
          /\ cbCall' = [cbCall EXCEPT ![k] = "idle"]
          /\ UNCHANGED <<cbState, successCount, halfOpenCount, hoSucc>>
       \/ /\ cbState = "halfopen"
          /\ HalfOpenCloses(successCount + 1)
          /\ cbState' = "closed"
          /\ failureCount' = 0
          /\ successCount' = 0
          /\ halfOpenCount' = halfOpenCount - 1
          /\ hoSucc' = hoSucc + 1
          /\ cbCall' = LeaveHalfOpen([cbCall EXCEPT ![k] = "idle"])
       \/ /\ cbState = "halfopen"
          /\ ~HalfOpenCloses(successCount + 1)
          /\ successCount' = successCount + 1
          /\ halfOpenCount' = halfOpenCount - 1
          /\ hoSucc' = hoSucc + 1
          /\ cbCall' = [cbCall EXCEPT ![k] = "idle"]
          /\ UNCHANGED <<cbState, failureCount>>
       \/ /\ cbState = "open"
          /\ cbCall' = [cbCall EXCEPT ![k] = "idle"]
          /\ UNCHANGED <<cbState, failureCount, successCount, halfOpenCount, hoSucc>>
    /\ consec' = 0
    /\ UNCHANGED <<lastFailure, now, allowRes, tripTime>>

\* Execute: fn() returned an error; cb.RecordFailure()
RecordFailure(k) ==
    /\ cbCall[k] # "idle"
    /\ lastFailure' = now
    /\ consec' = consec + 1
    /\ \/ /\ cbState = "closed"
          /\ failureCount + 1 >= FailureThreshold
          /\ failureCount' = failureCount + 1
          /\ cbState' = "open"
          /\ tripTime' = now
          /\ cbCall' = [cbCall EXCEPT ![k] = "idle"]
          /\ UNCHANGED halfOpenCount
       \/ /\ cbState = "closed"
          /\ ~(failureCount + 1 >= FailureThreshold)
          /\ failureCount' = failureCount + 1
          /\ cbCall' = [cbCall EXCEPT ![k] = "idle"]
          /\ UNCHANGED <<cbState, halfOpenCount, tripTime>>
       \/ /\ cbState = "halfopen"
          /\ cbState' = "open"
          /\ halfOpenCount' = 0
          /\ tripTime' = now
          /\ cbCall' = LeaveHalfOpen([cbCall EXCEPT ![k] = "idle"])
          /\ UNCHANGED failureCount
       \/ /\ cbState = "open"
          /\ cbCall' = [cbCall EXCEPT ![k] = "idle"]
          /\ UNCHANGED <<cbState, failureCount, halfOpenCount, tripTime>>
    /\ UNCHANGED <<successCount, now, allowRes, hoSucc>>

\* Reset(): closed, counters cleared (lastFailure is left as it is)
Reset ==
    /\ cbState' = "closed"
    /\ failureCount' = 0
    /\ successCount' = 0
    /\ halfOpenCount' = 0
    /\ consec' = 0
    /\ cbCall' = LeaveHalfOpen(cbCall)
    /\ UNCHANGED <<lastFailure, now, allowRes, hoSucc, tripTime>>

\* the wall clock advances
Tick ==
    /\ now < MaxTime
    /\ now' = now + 1
    /\ UNCHANGED <<cbState, failureCount, successCount, lastFailure, halfOpenCount,
                   cbCall, allowRes, consec, hoSucc, tripTime>>

NextBreaker ==
    \/ \E k \in CbCallers : Allow(k) /\ UNCHANGED notBreaker
    \/ \E k \in CbCallers : RecordSuccess(k) /\ UNCHANGED notBreaker
    \/ \E k \in CbCallers : RecordFailure(k) /\ UNCHANGED notBreaker
    \/ Reset /\ UNCHANGED notBreaker
    \/ Tick /\ UNCHANGED notBreaker

(***************************************************************************)
(* Session-sync task.                                                      *)
(***************************************************************************)
\* the sessions the CP knows; (type, credential, interface) are determined by UUID
UUIDs == {"u1", "u2"}

\* BgpSession.Type
SessType(u) == IF u = "u1" THEN "wireguard" ELSE "gre"

\* BgpSession.Credential
SessCredential(u) == IF u = "u1" THEN "K" ELSE ""

\* BgpSession.Interface
SessInterface(u) == IF u = "u1" THEN "wg_u1" ELSE "gre_u2"

\* session status constants
StatusDeleted == 0
StatusDisabled == 1
StatusEnabled == 2
StatusPendingApproval == 3
StatusQueuedForSetup == 4
StatusQueuedForDelete == 5
StatusProblem == 6
StatusTeardown == 7

Statuses == StatusDeleted..StatusTeardown

\* the map value of a UUID with no entry (no status code)
Absent == StatusDeleted - 1

\* history: classification of an observed status
ObsKind(st) ==
    IF st = StatusEnabled THEN "active"
    ELSE IF st \in {StatusDeleted, StatusDisabled, StatusQueuedForDelete} THEN "teardown"
    ELSE "other"

\* NewSessionSync: empty map; nothing has been set up on the node
InitSync ==
    /\ sessions = [u \in UUIDs |-> Absent]
    /\ remote = [u \in UUIDs |-> Absent]
    /\ todo = {}
    /\ syncPc = "idle"
    /\ ifaces = {}
    /\ peerFiles = {}
    /\ fwPorts = {}
    /\ reports = {}
    /\ log = {}
    /\ orphans = {}
    /\ lastSync = "none"
    /\ streak = [u \in UUIDs |-> <<"none", 0>>]

\* Sync: fetchSessions fails, the iteration is abandoned
SyncFetchFail ==
    /\ syncPc = "idle"
    /\ lastSync' = "fetch_failed"
    /\ UNCHANGED <<sessions, remote, todo, syncPc, ifaces, peerFiles, fwPorts,
                   reports, log, orphans, streak>>

\* Sync: fetchSessions returns a list; remoteMap is built from it
SyncFetchOk ==
    /\ syncPc = "idle"
    /\ \E list \in [UUIDs -> Statuses \cup {Absent}] :
          /\ remote' = list
          /\ todo' = {u \in UUIDs : list[u] # Absent}
    /\ syncPc' = "process"
    /\ reports' = {}
    /\ log' = {}
    /\ lastSync' = "running"
    /\ UNCHANGED <<sessions, ifaces, peerFiles, fwPorts, orphans, streak>>

\* wgExecutor.CreateInterface: "ok", or a failure before ("fail_add") or after
\* ("fail_set") the interface was added; an existing interface is kept
IfacesAfterCreate(u, outcome) ==
    IF outcome = "fail_add" /\ u \notin ifaces THEN ifaces ELSE ifaces \cup {u}

\* wgExecutor.DeleteInterface: nil when the interface does not exist
IfacesAfterDelete(u, ok) == IF ok THEN ifaces \ {u} ELSE ifaces

\* birdConfig.GenerateSession: the file is written only when rendering succeeds
FilesAfterGenerate(u, ok) == IF ok THEN peerFiles \cup {u} ELSE peerFiles

\* birdConfig.RemoveSession: idempotent removal of the peer file
FilesAfterRemove(u, ok) == IF ok THEN peerFiles \ {u} ELSE peerFiles

\* setupSession: does it create a WireGuard interface for this session
SetupCreatesInterface(u) == SessType(u) = "wireguard" /\ SessCredential(u) # ""

\* deleteSession / cleanupDisabledSession: does it delete the interface
TeardownDeletesInterface(u) == SessType(u) = "wireguard" /\ SessInterface(u) # ""

\* the set holding e when cond holds, else the empty set
Opt(cond, e) == IF cond THEN {e} ELSE {}

\* setupSession: CreateInterface (a failed SetMTU is only a warning),
\* GenerateSession, Configure (a failure is only a warning), then
\* reportStatus(uuid, "active"): the POST is sent whatever the CP answers, and
\* its error is only returned to Sync, which logs it
SetupSession(u) ==
    LET create == SetupCreatesInterface(u)
    IN \/ \* "failed to create WireGuard interface": return the error
          /\ create
          /\ \E wg \in {"fail_add", "fail_set"} : ifaces' = IfacesAfterCreate(u, wg)
          /\ log' = log \cup {<<u, "CreateInterface", FALSE>>}
          /\ UNCHANGED <<peerFiles, reports, fwPorts>>
       \/ \* "failed to generate BIRD config": return the error
          /\ ifaces' = IF create THEN IfacesAfterCreate(u, "ok") ELSE ifaces
          /\ peerFiles' = FilesAfterGenerate(u, FALSE)
          /\ log' = log \cup Opt(create, <<u, "CreateInterface", TRUE>>)
                        \cup {<<u, "GenerateSession", FALSE>>}
          /\ UNCHANGED <<reports, fwPorts>>
       \/ \* interface and peer config done; Configure accepted or not; report
          /\ ifaces' = IF create THEN IfacesAfterCreate(u, "ok") ELSE ifaces
          /\ peerFiles' = FilesAfterGenerate(u, TRUE)
          /\ \E conf \in BOOLEAN :
                log' = log \cup Opt(create, <<u, "CreateInterface", TRUE>>)
                           \cup {<<u, "GenerateSession", TRUE>>, <<u, "Configure", conf>>}
          /\ reports' = reports \cup {<<u, "active">>}
          /\ UNCHANGED fwPorts

\* steps 1-3 shared by deleteSession and cleanupDisabledSession: RemoveSession,
\* Configure, DeleteInterface; every failure is only a warning
TeardownSteps(u) ==
    \E rm \in BOOLEAN, conf \in BOOLEAN, del \in BOOLEAN :
       LET delete == TeardownDeletesInterface(u)
       IN /\ (~delete \/ u \notin ifaces) => del
          /\ (u \notin peerFiles) => rm
          /\ peerFiles' = FilesAfterRemove(u, rm)
          /\ ifaces' = IF delete THEN IfacesAfterDelete(u, del) ELSE ifaces
          /\ log' = log \cup {<<u, "RemoveSession", rm>>, <<u, "Configure", conf>>}
                        \cup Opt(delete, <<u, "DeleteInterface", del>>)
          /\ UNCHANGED fwPorts

\* deleteSession: teardown, then reportStatus(uuid, "deleted")
DeleteSession(u) ==
    /\ TeardownSteps(u)
    /\ reports' = reports \cup {<<u, "deleted">>}

\* cleanupDisabledSession: teardown, nothing is reported
CleanupDisabledSession(u) ==
    /\ TeardownSteps(u)
    /\ UNCHANGED reports

\* verifySession, handleProblemSession, PendingApproval, unknown status: nothing
NoOpSession(u) ==
    UNCHANGED <<ifaces, peerFiles, fwPorts, reports, log>>

\* processSession: dispatch on session.Status
ProcessSession(u) ==
    /\ syncPc = "process"
    /\ u \in todo
    /\ todo' = todo \ {u}
    /\ \/ /\ remote[u] = StatusQueuedForSetup
          /\ SetupSession(u)
       \/ /\ remote[u] = StatusEnabled
          /\ NoOpSession(u)
       \/ /\ remote[u] = StatusQueuedForDelete
          /\ DeleteSession(u)
       \/ /\ remote[u] = StatusProblem
          /\ NoOpSession(u)
       \/ /\ remote[u] = StatusDisabled
          /\ CleanupDisabledSession(u)
       \/ /\ remote[u] = StatusPendingApproval
          /\ NoOpSession(u)
       \/ /\ remote[u] \notin {StatusQueuedForSetup, StatusEnabled, StatusQueuedForDelete,
                               StatusProblem, StatusDisabled, StatusPendingApproval}
          /\ NoOpSession(u)
    /\ UNCHANGED <<sessions, remote, syncPc, orphans, lastSync, streak>>

\* history: the run of observations of u after it was observed with status st
StreakAfter(u, st) ==
    IF st = Absent THEN <<"none", 0>>
    ELSE IF streak[u][1] = ObsKind(st)
         THEN <<ObsKind(st), IF streak[u][2] < 2 THEN streak[u][2] + 1 ELSE 2>>
         ELSE <<ObsKind(st), 1>>

\* Sync, after the processing loop: sessions in the local map but not in the
\* fetch are logged (nothing else is done for them); s.sessions = remoteMap
SyncFinish ==
    /\ syncPc = "process"
    /\ todo = {}
    /\ orphans' = {u \in UUIDs : sessions[u] # Absent /\ remote[u] = Absent}
    /\ sessions' = remote
    /\ syncPc' = "idle"
    /\ lastSync' = "ok"
    /\ streak' = [u \in UUIDs |-> StreakAfter(u, remote[u])]
    /\ UNCHANGED <<remote, todo, ifaces, peerFiles, fwPorts, reports, log>>

NextSync ==
    \/ SyncFetchFail /\ UNCHANGED notSync
    \/ SyncFetchOk /\ UNCHANGED notSync
    \/ \E u \in UUIDs : ProcessSession(u) /\ UNCHANGED notSync
    \/ SyncFinish /\ UNCHANGED notSync

(***************************************************************************)
(* CircuitBreaker.Execute(fn): Allow, then fn, then RecordSuccess or       *)
(* RecordFailure.  execOut[k] = <<returned, fn runs, RecordSuccess calls,  *)
(* RecordFailure calls>> of caller k's latest Execute.                     *)
(***************************************************************************)
\* the errors fn may return (nil is "nil")
FnErrors == {"testErr"}

InitExec == execOut = [k \in CbCallers |-> <<"none", 0, 0, 0>>]

\* Execute: is fn invoked after Allow() returned allowErr, mutated: always
FnInvoked_Always(allowErr) == TRUE

\* Execute: if err := cb.Allow(); err != nil { return err }; err := fn()
FnInvoked(allowErr) == allowErr = "nil"

\* Execute's return value: Allow's error, else fn's error, else nil
ExecuteReturn(allowErr, fnErr) ==
    IF allowErr # "nil" THEN allowErr
    ELSE IF fnErr # "nil" THEN fnErr
    ELSE "nil"

\* Execute up to the call of fn: Allow(); a denied call returns at once
ExecuteAllow(k) ==
    /\ Allow(k)
    /\ execOut' = [execOut EXCEPT ![k] =
           IF FnInvoked(allowRes'[k])
           THEN <<"running", 1, 0, 0>>
           ELSE <<ExecuteReturn(allowRes'[k], "nil"), 0, 0, 0>>]

\* Execute: fn returned nil; RecordSuccess(); return nil
ExecuteSuccess(k) ==
    /\ execOut[k][1] = "running"
    /\ RecordSuccess(k)
    /\ execOut' = [execOut EXCEPT ![k] =
           <<ExecuteReturn("nil", "nil"), @[2], @[3] + 1, @[4]>>]

\* Execute: fn returned err; RecordFailure(); return err
ExecuteFailure(k) ==
    /\ execOut[k][1] = "running"
    /\ \E e \in FnErrors :
          execOut' = [execOut EXCEPT ![k] =
              <<ExecuteReturn("nil", e), @[2], @[3], @[4] + 1>>]
    /\ RecordFailure(k)

NextExec ==
    \/ \E k \in CbCallers : ExecuteAllow(k) /\ UNCHANGED notExec
    \/ \E k \in CbCallers : ExecuteSuccess(k) /\ UNCHANGED notExec
    \/ \E k \in CbCallers : ExecuteFailure(k) /\ UNCHANGED notExec
    \/ Reset /\ UNCHANGED <<notExec, execVars>>
    \/ Tick /\ UNCHANGED <<notExec, execVars>>


(***************************************************************************)
(* Retrying HTTP client: New, then one call of Do.                         *)
(***************************************************************************)
\* status codes a response may carry (both sides of every class boundary)
StatusCodes == {200, 204, 301, 400, 404, 428, 429, 430, 499, 500, 503, 599}

\* what one httpClient.Do yields: (nil, err) or (resp, nil)
Outcomes == {<<"err", 0>>} \cup {<<"resp", st>> : st \in StatusCodes}

\* New: "Apply defaults for zero values"
OrDefault(v, d) == IF v = 0 THEN d ELSE v

\* base^n
RECURSIVE Pow(_, _)
Pow(base, n) == IF n = 0 THEN 1 ELSE base * Pow(base, n - 1)

InitHttp ==
    /\ hCfg = [MaxRetries |-> 0, InitialDelay |-> 0, MaxDelay |-> 0,
               Multiplier |-> 0, Jitter |-> 0]
    /\ hGetBody = FALSE
    /\ hPc = "new"
    /\ hAttempt = 0
    /\ hLast = <<"none", 0>>
    /\ hTimer = FALSE
    /\ hCancelAt = "none"
    /\ hRet = <<"none", 0>>
    /\ hRequests = 0
    /\ hWaits = <<>>

\* isRetryable, mutated: every 4xx response is retried as well
IsRetryable_Any4xx(outcome) ==
    outcome[1] = "err" \/ (outcome[2] >= 400 /\ outcome[2] <= 599)

\* isRetryable(resp, err): err != nil, or 5xx, or 429
IsRetryable(outcome) ==
    IF outcome[1] = "err" THEN TRUE
    ELSE IF outcome[2] >= 500 /\ outcome[2] <= 599 THEN TRUE
    ELSE IF outcome[2] = 429 THEN TRUE
    ELSE FALSE

\* the exponent calculateDelay uses for loop index attempt, mutated: one more
DelayExponent_Next(attempt) == attempt + 1

\* calculateDelay: math.Pow(c.config.Multiplier, float64(attempt))
DelayExponent(attempt) == attempt

\* calculateDelay(attempt): the delays it may return.  With Jitter > 0 the
\* delay is moved by (rand.Float64()*2 - 1) * delay * Jitter, a point of
\* [delay - delay*Jitter, delay + delay*Jitter); rand.Float64() is sampled at
\* its least value, its middle and its greatest value.  Then the cap.
CalculateDelay(attempt) ==
    LET delay == hCfg.InitialDelay * Pow(hCfg.Multiplier, DelayExponent(attempt))
        jitterRange == delay * hCfg.Jitter
        moved == IF hCfg.Jitter > 0
                 THEN {delay - jitterRange, delay, delay + jitterRange - 1}
                 ELSE {delay}
    IN {IF d > hCfg.MaxDelay THEN hCfg.MaxDelay ELSE d : d \in moved}

\* New(httpClient, config), then Do(req) is entered with attempt := 0
HttpNew ==
    /\ hPc = "new"
    /\ \E mr \in 0..MaxRetriesCfg, id \in 0..MaxInitialDelayCfg,
          md \in 0..MaxMaxDelayCfg, mu \in 0..MaxMultiplierCfg, ji \in {0, 1} :
          hCfg' = [MaxRetries |-> OrDefault(mr, DefaultMaxRetries),
                   InitialDelay |-> OrDefault(id, DefaultInitialDelay),
                   MaxDelay |-> OrDefault(md, DefaultMaxDelay),
                   Multiplier |-> OrDefault(mu, DefaultMultiplier),
                   Jitter |-> ji]
    /\ hGetBody' \in BOOLEAN
    /\ hPc' = "check"
    /\ UNCHANGED <<hAttempt, hLast, hTimer, hCancelAt, hRet, hRequests, hWaits>>

\* the caller cancels the request's context (or its deadline passes)
HttpCancel ==
    /\ hPc \in {"check", "send", "wait"}
    /\ hCancelAt = "none"
    /\ hCancelAt' = hPc
    /\ UNCHANGED <<hCfg, hGetBody, hPc, hAttempt, hLast, hTimer, hRet, hRequests, hWaits>>

\* the loop condition of Do, mutated: one iteration short
LoopContinues_Short(attempt) == attempt < hCfg.MaxRetries

\* Do: for attempt := 0; attempt <= c.config.MaxRetries; attempt++
LoopContinues(attempt) == attempt <= hCfg.MaxRetries

\* Do, top of the loop: attempt <= MaxRetries, req.Context().Err(), GetBody
HttpCheck ==
    /\ hPc = "check"
    /\ \/ \* the loop is over: "all %d retries failed" / "all retries failed
          \* with server errors"
          /\ ~LoopContinues(hAttempt)
          /\ hRet' = IF hLast[1] = "err" THEN <<"ErrAllRetriesFailed", 0>>
                                         ELSE <<"ErrServerErrors", hLast[2]>>
          /\ hPc' = "done"
       \/ \* "request cancelled: %w"
          /\ LoopContinues(hAttempt)
          /\ hCancelAt # "none"
          /\ hRet' = <<"ErrRequestCancelled", 0>>
          /\ hPc' = "done"
       \/ \* "failed to get request body for retry"
          /\ LoopContinues(hAttempt)
          /\ hCancelAt = "none"
          /\ hAttempt > 0 /\ hGetBody
          /\ hRet' = <<"ErrGetBody", 0>>
          /\ hPc' = "done"
       \/ \* the request (or its clone with a rewound body) is ready
          /\ LoopContinues(hAttempt)
          /\ hCancelAt = "none"
          /\ hPc' = "send"
          /\ UNCHANGED hRet
    /\ UNCHANGED <<hCfg, hGetBody, hAttempt, hLast, hTimer, hCancelAt, hRequests, hWaits>>

\* Do: resp, err := c.httpClient.Do(reqCopy); isRetryable; calculateDelay
HttpSend ==
    /\ hPc = "send"
    /\ hRequests' = hRequests + 1
    /\ \E outcome \in Outcomes :
          /\ hCancelAt # "none" => outcome[1] = "err"
          /\ hLast' = outcome
          /\ \/ \* "Success or non-retryable error": return resp, err
                /\ ~IsRetryable(outcome)
                /\ hRet' = outcome
                /\ hPc' = "done"
                /\ UNCHANGED <<hAttempt, hWaits, hTimer>>
             \/ \* "Don't sleep after the last attempt"
                /\ IsRetryable(outcome)
                /\ ~(hAttempt < hCfg.MaxRetries)
                /\ hAttempt' = hAttempt + 1
                /\ hPc' = "check"
                /\ UNCHANGED <<hRet, hWaits, hTimer>>
             \/ \* delay := c.calculateDelay(attempt); enter the select
                /\ IsRetryable(outcome)
                /\ hAttempt < hCfg.MaxRetries
                /\ \E delay \in CalculateDelay(hAttempt) :
                      hWaits' = Append(hWaits, delay)
                /\ hTimer' = FALSE
                /\ hPc' = "wait"
                /\ UNCHANGED <<hRet, hAttempt>>
    /\ UNCHANGED <<hCfg, hGetBody, hCancelAt>>

\* the delay of the pending wait has passed: time.After(delay) delivers
HttpTimerFires ==
    /\ hPc = "wait"
    /\ ~hTimer
    /\ hTimer' = TRUE
    /\ UNCHANGED <<hCfg, hGetBody, hPc, hAttempt, hLast, hCancelAt, hRet, hRequests, hWaits>>

\* can the select leave through the Done case, mutated: time.Sleep(delay)
\* instead of the select, cancellation is seen only after the delay
WaitSeesCancel_AfterDelay == hCancelAt # "none" /\ hTimer

\* select { case <-req.Context().Done(): ... }: ready once cancelled
WaitSeesCancel == hCancelAt # "none"

\* Do: case <-req.Context().Done(): return nil, req.Context().Err()
HttpWaitCancelled ==
    /\ hPc = "wait"
    /\ WaitSeesCancel
    /\ hRet' = <<"ErrContext", 0>>
    /\ hPc' = "done"
    /\ UNCHANGED <<hCfg, hGetBody, hAttempt, hLast, hTimer, hCancelAt, hRequests, hWaits>>

\* Do: case <-time.After(delay): continue to the next attempt
HttpWaitElapsed ==
    /\ hPc = "wait"
    /\ hTimer
    /\ hAttempt' = hAttempt + 1
    /\ hPc' = "check"
    /\ UNCHANGED <<hCfg, hGetBody, hLast, hTimer, hCancelAt, hRet, hRequests, hWaits>>

NextHttp ==
    \/ HttpNew /\ UNCHANGED notHttp
    \/ HttpCancel /\ UNCHANGED notHttp
    \/ HttpCheck /\ UNCHANGED notHttp
    \/ HttpSend /\ UNCHANGED notHttp
    \/ HttpTimerFires /\ UNCHANGED notHttp
    \/ HttpWaitCancelled /\ UNCHANGED notHttp
    \/ HttpWaitElapsed /\ UNCHANGED notHttp

(***************************************************************************)
(* Pool.Configure: the response Execute("configure") returned, a string    *)
(* (sequence of characters), is classified.                                *)
(***************************************************************************)
\* lines BIRD may send, without their newline
Line_0002_Reading ==
    <<"0", "0", "0", "2", "-", "R", "e", "a", "d", "i", "n", "g">>

Line_1000_Bird ==
    <<"1", "0", "0", "0", "-", "B", "I", "R", "D">>

Line_1002_Table ==
    <<"1", "0", "0", "2", "-", "d", "n", "4", "2">>

Line_0003_Reconfigured ==
    <<"0", "0", "0", "3", " ", "R", "e", "c", "o", "n", "f", "i", "g", "u",
      "r", "e", "d">>

Line_0004_InProgress ==
    <<"0", "0", "0", "4", " ", "R", "e", "c", "o", "n", "f", "i", "g", "u",
      "r", "a", "t", "i", "o", "n", " ", "i", "n", " ", "p", "r", "o", "g",
      "r", "e", "s", "s">>

Line_0018_Confirmed ==
    <<"0", "0", "1", "8", " ", "R", "e", "c", "o", "n", "f", "i", "g", "u",
      "r", "a", "t", "i", "o", "n", " ", "c", "o", "n", "f", "i", "r", "m",
      "e", "d">>

Line_0020_ConfigOk ==
    <<"0", "0", "2", "0", " ", "C", "o", "n", "f", "i", "g", "u", "r", "a",
      "t", "i", "o", "n", " ", "O", "K">>

Line_8002_Syntax ==
    <<"8", "0", "0", "2", " ", "s", "y", "n", "t", "a", "x", " ", "e", "r",
      "r", "o", "r">>

Line_9001_Parse ==
    <<"9", "0", "0", "1", " ", "p", "a", "r", "s", "e", " ", "e", "r", "r",
      "o", "r">>

Line_0013_Status ==
    <<"0", "0", "1", "3", " ", "S", "t", "a", "t", "u", "s">>

Line_0001_Routes ==
    <<"0", "0", "0", "1", " ", "1", "9", "8", " ", "u", "p">>

Lines ==
    {Line_0002_Reading,
     Line_1000_Bird,
     Line_1002_Table,
     Line_0003_Reconfigured,
     Line_0004_InProgress,
     Line_0018_Confirmed,
     Line_0020_ConfigOk,
     Line_8002_Syntax,
     Line_9001_Parse,
     Line_0013_Status,
     Line_0001_Routes}

\* the substrings Configure looks for
Str_Reconfigured ==
    <<"R", "e", "c", "o", "n", "f", "i", "g", "u", "r", "e", "d">>

Str_InProgress ==
    <<"R", "e", "c", "o", "n", "f", "i", "g", "u", "r", "a", "t", "i", "o",
      "n", " ", "i", "n", " ", "p", "r", "o", "g", "r", "e", "s", "s">>

Str_0003 ==
    <<"0", "0", "0", "3", " ">>

Str_0018 ==
    <<"0", "0", "1", "8", " ">>

Str_0002 ==
    <<"0", "0", "0", "2", "-">>

SuccessMarks == {Str_Reconfigured, Str_InProgress, Str_0003, Str_0018, Str_0002}

Digits == {"0", "1", "2", "3", "4", "5", "6", "7", "8", "9"}

\* readResponse: "responses end with a line starting with 4 digits and a
\* space": len(line) >= 5 && line[4] == ' ' (line still carries its newline)
Terminates(line) == Len(line) >= 5 /\ line[5] = " "

\* the result string of readResponse: every line read, with its newline
RECURSIVE Join(_)
Join(ls) == IF ls = <<>> THEN <<>> ELSE Head(ls) \o <<"\n">> \o Join(Tail(ls))

\* sequences of n lines that do not end the response
RECURSIVE ContSeqs(_)
ContSeqs(n) ==
    IF n = 0 THEN {<<>>}
    ELSE {<<>>} \cup {<<l>> \o r : l \in {x \in Lines : ~Terminates(x)},
                                   r \in ContSeqs(n - 1)}

\* what readResponse can return: lines up to and including the first that
\* ends the response
Responses ==
    {Join(cs \o <<l>>) : cs \in ContSeqs(MaxContLines),
                         l \in {x \in Lines : Terminates(x)}}

\* strings.Contains(str, sub)
Contains(str, sub) ==
    \E i \in 1..(Len(str) - Len(sub) + 1) : SubSeq(str, i, i + Len(sub) - 1) = sub

\* strings.Split(str, "\n")
RECURSIVE Split(_)
Split(str) ==
    IF \A i \in 1..Len(str) : str[i] # "\n" THEN <<str>>
    ELSE LET i == CHOOSE j \in 1..Len(str) :
                      str[j] = "\n" /\ \A k \in 1..(j - 1) : str[k] # "\n"
         IN <<SubSeq(str, 1, i - 1)>> \o Split(SubSeq(str, i + 1, Len(str)))

\* Configure after Execute returned result: nil on any success mark; else
\* "configure failed" on a line of length >= 4 that starts with 8 or 9; else
\* nil ("assumed success")
ConfigureResult(result) ==
    IF \E m \in SuccessMarks : Contains(result, m) THEN "nil"
    ELSE IF (Contains(result, <<"8">>) \/ Contains(result, <<"9">>))
            /\ \E i \in DOMAIN Split(result) :
                   Len(Split(result)[i]) >= 4 /\ Split(result)[i][1] \in {"8", "9"}
         THEN "err"
         ELSE "nil"

InitConfigure ==
    /\ cfgPc = "idle"
    /\ cfgResp = <<>>
    /\ cfgRet = "none"

\* Configure: Execute("configure") failed, its error is returned
ConfigureExecuteFails ==
    /\ cfgPc = "idle"
    /\ cfgPc' = "failed"
    /\ cfgRet' = "err"
    /\ UNCHANGED cfgResp

\* Configure: Execute("configure") returned a response, which is classified
ConfigureAnswered ==
    /\ cfgPc = "idle"
    /\ \E result \in Responses :
          /\ cfgResp' = result
          /\ cfgRet' = ConfigureResult(result)
    /\ cfgPc' = "answered"

NextConfigure ==
    \/ ConfigureExecuteFails /\ UNCHANGED notConfigure
    \/ ConfigureAnswered /\ UNCHANGED notConfigure

(***************************************************************************)
(* Mesh-driven tasks: bird-config-sync, iBGP-sync, mesh-sync and RTT       *)
(* (package task).  One call of a task's Sync / measureAll is one step.    *)
(***************************************************************************)
\* node ids of the mesh; cfg.Node.ID is the local one
NodeIDs == {1, 2, 3}
LocalNodeID == 1

\* peer lists the CP sends (ibgpPeers of a bundle, peers of a mesh snapshot),
\* each as the sequence of its node ids
ApiPeerLists ==
    {<<>>, <<1>>, <<2>>, <<3>>, <<1, 2>>, <<1, 3>>, <<2, 3>>, <<1, 2, 3>>}

\* values of BirdConfigResponse.ConfigHash
Hashes == {"h1", "h2"}

\* the files BirdConfigSync.Sync renders, in the order it renders them
ConfFiles == <<"filters.conf", "moenet_communities.conf", "babel.conf">>

\* how the three renders of one iteration end: "ok", or the file whose
\* render returned an error
RenderOutcomes == {"ok"} \cup SeqToSet(ConfFiles)

\* the files written before the render of `failed` returned its error
WrittenBefore(failed) ==
    {ConfFiles[i] : i \in {j \in DOMAIN ConfFiles :
                              \A k \in 1..j : ConfFiles[k] # failed}}

\* record of an iteration: fetched hash, s.lastConfigHash when it was
\* compared, the files written, and the outcome of birdPool.Configure
\* ("none" when it was not called)
BcsRecord(hash, last, written, configure) ==
    [hash |-> hash, last |-> last, written |-> written, configure |-> configure]

NoIteration == BcsRecord("", "", {}, "none")

InitBirdConfig ==
    /\ lastConfigHash = ""
    /\ bcsCur = NoIteration
    /\ bcsPrev = NoIteration
    /\ bcsPeers = <<>>
    /\ bcsRet = "none"

\* IBGPSync.UpdatePeersFromAPI: the new map has one key per NodeID of the list
UpdatePeersFromAPI(apiPeers) == SeqToSet(apiPeers)

\* Sync: the condition under which the fetched list is handed to iBGP-sync
\* (s.ibgpSync is never nil: main passes the IBGPSync it has just built)
PushesPeers(apiPeers) == Len(apiPeers) > 0

\* Sync: "Config unchanged, skipping render"
HashUnchanged_Never(hash) == FALSE
HashUnchanged(hash) == hash = lastConfigHash

\* Sync: fetchBirdConfig returned an error
BirdFetchFail ==
    /\ bcsRet' = "fetch"
    /\ UNCHANGED <<lastConfigHash, bcsCur, bcsPrev, bcsPeers>>
    /\ UNCHANGED <<ibgpVars, meshVars, rttVars>>

\* Sync with a fetched bundle: push the iBGP peers, compare the hash, render
\* the three files, store the hash, call Configure (its error is only logged)
BirdSync ==
    \E hash \in Hashes, apiPeers \in ApiPeerLists,
       failed \in RenderOutcomes, conf \in BOOLEAN :
       /\ ibgpPeers' = IF PushesPeers(apiPeers)
                       THEN UpdatePeersFromAPI(apiPeers) ELSE ibgpPeers
       /\ bcsPeers' = apiPeers
       /\ bcsPrev' = bcsCur
       /\ IF HashUnchanged(hash)
          THEN /\ failed = "ok" /\ conf
               /\ bcsCur' = BcsRecord(hash, lastConfigHash, {}, "none")
               /\ bcsRet' = "nil"
               /\ UNCHANGED lastConfigHash
          ELSE IF failed # "ok"
          THEN /\ conf
               /\ bcsCur' = BcsRecord(hash, lastConfigHash,
                                       WrittenBefore(failed), "none")
               /\ bcsRet' = "render"
               /\ UNCHANGED lastConfigHash
          ELSE /\ lastConfigHash' = hash
               /\ bcsCur' = BcsRecord(hash, lastConfigHash, SeqToSet(ConfFiles),
                                       IF conf THEN "ok" ELSE "rejected")
               /\ bcsRet' = "nil"
       /\ UNCHANGED <<ibgpFiles, ibgpIter, meshVars, rttVars>>

NextBirdConfig ==
    \/ BirdFetchFail /\ UNCHANGED notMeshDriven
    \/ BirdSync /\ UNCHANGED notMeshDriven

\* ---------------------------- iBGP-sync ----------------------------------
\* record of a Sync call: the files it generated, the stale files it removed,
\* the outcome of birdPool.Configure ("none" when it was not called), and
\* whether every file operation of the call succeeded
IbgpRecord(rendered, removed, configure, clean) ==
    [ran |-> TRUE, rendered |-> rendered, removed |-> removed,
     configure |-> configure, clean |-> clean]

InitIBGP ==
    /\ ibgpPeers = {}
    /\ ibgpFiles = {}
    /\ ibgpIter = [ran |-> FALSE, rendered |-> {}, removed |-> {},
                   configure |-> "none", clean |-> TRUE]

\* the call BirdConfigSync.Sync makes with the peer list of a fetched bundle
\* (the rest of that iteration touches only BirdConfigSync's own state)
IBGPUpdatePeersFromAPI ==
    /\ \E apiPeers \in ApiPeerLists :
          /\ PushesPeers(apiPeers)
          /\ ibgpPeers' = UpdatePeersFromAPI(apiPeers)
    /\ UNCHANGED <<ibgpFiles, ibgpIter, birdVars, meshVars, rttVars>>

\* cleanupStaleConfigs: the ibgp_N.conf files whose N is not a key of currentPeers
StaleConfigs(files, currentPeers) == files \ currentPeers

\* Sync: `changed`, the condition for calling birdPool.Configure
Changed(rendered, removed) == rendered # {}

\* Sync with the outcomes of its file operations: os.Create fails for the
\* peers in genFail, os.ReadDir succeeds or not, Configure is accepted or not
IBGPSyncWith(genFail, readDirOk, conf) ==
    LET peers == ibgpPeers
        rendered == (peers \ {LocalNodeID}) \ genFail
        generated == ibgpFiles \cup rendered
        removed == IF readDirOk THEN StaleConfigs(generated, peers) ELSE {}
        clean == genFail = {} /\ readDirOk
    IN  /\ genFail \subseteq peers \ {LocalNodeID}
        /\ IF peers = {}
           THEN \* "No peers to configure"
                /\ readDirOk /\ conf
                /\ ibgpIter' = IbgpRecord({}, {}, "none", TRUE)
                /\ UNCHANGED ibgpFiles
           ELSE /\ ibgpFiles' = generated \ removed
                /\ IF Changed(rendered, removed)
                   THEN ibgpIter' = IbgpRecord(rendered, removed,
                                       IF conf THEN "ok" ELSE "rejected", clean)
                   ELSE /\ conf
                        /\ ibgpIter' = IbgpRecord(rendered, removed, "none", clean)
        /\ UNCHANGED <<ibgpPeers, birdVars, meshVars, rttVars>>

IBGPSync ==
    \E genFail \in SUBSET NodeIDs, readDirOk \in BOOLEAN, conf \in BOOLEAN :
       IBGPSyncWith(genFail, readDirOk, conf)

\* a Sync call in which no file operation fails
IBGPSyncClean == \E conf \in BOOLEAN : IBGPSyncWith({}, TRUE, conf)

\* ---------------------------- mesh-sync ----------------------------------
InitMesh ==
    /\ meshPeers = {}
    /\ meshIfaces = {}
    /\ meshPrev = {}
    /\ meshFailed = {}
    /\ meshRan = FALSE

\* UpdateMeshPeers: loopback addresses of the peers of the sample snapshots
LoopbackIPv6 == [n \in NodeIDs |-> IF n = 3 THEN "" ELSE
                                     IF n = 1 THEN "fd00::1" ELSE "fd00::2"]
LoopbackIPv4 == [n \in NodeIDs |-> IF n = 1 THEN "172.20.0.1" ELSE
                                     IF n = 2 THEN "" ELSE "172.20.0.3"]

\* UpdateMeshPeers: prefer the IPv6 loopback, fall back to IPv4
TargetsOf(peers) ==
    {LoopbackIPv6[n] : n \in {p \in peers : LoopbackIPv6[p] # ""}}
    \cup {LoopbackIPv4[n] : n \in {p \in peers : LoopbackIPv6[p] = ""
                                                  /\ LoopbackIPv4[p] # ""}}

\* Sync: the peers of the old map that the new map does not hold
StaleTunnels_None(newPeers) == {}
StaleTunnels(newPeers) == meshPeers \ newPeers

\* Sync: fetchMeshConfig returned an error
MeshFetchFail ==
    /\ UNCHANGED <<meshVars, rttVars, birdVars, ibgpVars>>

\* Sync with a fetched snapshot: ensureMeshTunnel for every peer but self,
\* removeMeshTunnel for every stale peer, replace the map, run the callback
\* (main registers rttMeasurement.UpdateMeshPeers).  "ip link add" fails
\* for the peers in failAdd, DeleteInterface for those in failDel.
MeshSync ==
    \E list \in ApiPeerLists :
       LET newPeers == SeqToSet(list)
           tunnels == newPeers \ {LocalNodeID}
           stale == StaleTunnels(newPeers)
       IN  \E failAdd \in SUBSET (tunnels \ meshIfaces),
              failDel \in SUBSET (stale \cap meshIfaces) :
              /\ meshIfaces' = (meshIfaces \cup (tunnels \ failAdd))
                                  \ (stale \ failDel)
              /\ meshPrev' = meshPeers
              /\ meshPeers' = newPeers
              /\ meshFailed' = failAdd \cup failDel
              /\ meshRan' = TRUE
              /\ meshTargets' = TargetsOf(newPeers)
              /\ UNCHANGED <<rttResults, rttMeasured, rttBatch, birdVars, ibgpVars>>

\* ------------------------------- RTT -------------------------------------
\* measureAll: the targets used while no mesh peer is known
DefaultTargets == {"172.20.0.53", "fd42:d42:d42::1"}

InitRtt ==
    /\ meshTargets = {}
    /\ rttResults = {}
    /\ rttMeasured = {}
    /\ rttBatch = {}

\* measureAll: measure every target, store each sample under its target,
\* then reportResults posts every entry of r.results as one batch
MeasureAll ==
    LET targets == IF Cardinality(meshTargets) > 0 THEN meshTargets
                   ELSE DefaultTargets
    IN  /\ rttResults' = rttResults \cup targets
        /\ rttMeasured' = targets
        /\ rttBatch' = rttResults'
        /\ UNCHANGED <<meshTargets, birdVars, ibgpVars, meshVars>>

\* the agent process starts again: every task is built anew by main, while
\* the iBGP directory and the kernel interfaces are as the old process left them
AgentRestart ==
    /\ lastConfigHash' = ""
    /\ bcsCur' = NoIteration
    /\ bcsPrev' = NoIteration
    /\ bcsPeers' = <<>>
    /\ bcsRet' = "none"
    /\ meshPeers' = {}
    /\ meshPrev' = {}
    /\ meshFailed' = {}
    /\ meshRan' = FALSE
    /\ meshTargets' = {}
    /\ rttResults' = {}
    /\ rttMeasured' = {}
    /\ rttBatch' = {}
    /\ ibgpPeers' = {}
    /\ ibgpIter' = [ran |-> FALSE, rendered |-> {}, removed |-> {},
                    configure |-> "none", clean |-> TRUE]
    /\ UNCHANGED <<ibgpFiles, meshIfaces>>

NextIBGP ==
    \/ IBGPUpdatePeersFromAPI /\ UNCHANGED notMeshDriven
    \/ IBGPSync /\ UNCHANGED notMeshDriven
    \/ MeshFetchFail /\ UNCHANGED notMeshDriven
    \/ MeshSync /\ UNCHANGED notMeshDriven
    \/ AgentRestart /\ UNCHANGED notMeshDriven

NextMesh ==
    \/ MeshFetchFail /\ UNCHANGED notMeshDriven
    \/ MeshSync /\ UNCHANGED notMeshDriven
    \/ MeasureAll /\ UNCHANGED notMeshDriven

(***************************************************************************)
(* Conn.readResponse over a pooled connection: executeWithRetry writes a   *)
(* command, BIRD appends its reply to the connection, readResponse takes   *)
(* lines from c.reader, and a successful call releases the connection.     *)
(***************************************************************************)
\* a row of a table reply: BIRD prefixes a line that repeats the code of the
\* line before it with one space; the name in this row has three characters
Line_Row_Short ==
    <<" ", "l", "o", "4", " ", "D", "e", "v", "i", "c", "e">>

\* "BIRD responses end with a line starting with 4 digits and a space"
IsTerminal(line) ==
    /\ Len(line) >= 5
    /\ \A i \in 1..4 : line[i] \in Digits
    /\ line[5] = " "

RECURSIVE RowSeqs(_)
RowSeqs(n) ==
    IF n = 0 THEN {<<>>}
    ELSE {<<>>} \cup {<<l>> \o r : l \in {Line_1002_Table, Line_Row_Short},
                                   r \in RowSeqs(n - 1)}

\* the replies BIRD writes: continuation lines, then one terminal line
Replies ==
    {rows \o <<l>> : rows \in RowSeqs(MaxRows),
                     l \in {x \in {Line_0013_Status, Line_0003_Reconfigured} :
                                IsTerminal(x)}}

\* the lines of reply, each marked with the command k it answers
ReplyTo(k, reply) == [i \in DOMAIN reply |-> <<k, reply[i]>>]

\* readResponse: the number of lines it takes from buf, 0 when no line of buf
\* ends the loop
LinesRead(buf) ==
    IF \E i \in DOMAIN buf : Terminates(buf[i][2])
    THEN Min({i \in DOMAIN buf : Terminates(buf[i][2])})
    ELSE 0

InitReply ==
    /\ reader = <<>>
    /\ rdReply = <<>>
    /\ rdResult = <<>>
    /\ cmdSeq = 0
    /\ rdPc = "idle"

\* executeWithRetry: the command is written to the connection acquired from
\* the pool (the one released by the call before, or a fresh one after a
\* discard) and BIRD answers it
ReplySend ==
    /\ rdPc # "sent"
    /\ cmdSeq < MaxCmds
    /\ \E reply \in Replies :
          /\ rdReply' = reply
          /\ reader' = reader \o ReplyTo(cmdSeq + 1, reply)
    /\ cmdSeq' = cmdSeq + 1
    /\ rdPc' = "sent"
    /\ UNCHANGED rdResult

\* readResponse returns the lines up to the first that ends its loop; the
\* connection is released with whatever c.reader still holds
ReplyRead ==
    /\ rdPc = "sent"
    /\ LinesRead(reader) > 0
    /\ rdResult' = SubSeq(reader, 1, LinesRead(reader))
    /\ reader' = SubSeq(reader, LinesRead(reader) + 1, Len(reader))
    /\ rdPc' = "ok"
    /\ UNCHANGED <<rdReply, cmdSeq>>

\* readResponse fails (ReadString error): the connection is discarded, the
\* next call gets a fresh one
ReplyReadError ==
    /\ rdPc = "sent"
    /\ rdResult' = <<>>
    /\ reader' = <<>>
    /\ rdPc' = "err"
    /\ UNCHANGED <<rdReply, cmdSeq>>

NextReply ==
    \/ ReplySend /\ UNCHANGED <<notAgent, shutdownVars, maintVars, renderVars, hbVars>>
    \/ ReplyRead /\ UNCHANGED <<notAgent, shutdownVars, maintVars, renderVars, hbVars>>
    \/ ReplyReadError /\ UNCHANGED <<notAgent, shutdownVars, maintVars, renderVars, hbVars>>

(***************************************************************************)
(* main: the background tasks started under the root context, and the      *)
(* shutdown path.  A task's Run is in its select (ctx.Done / ticker.C), in *)
(* a time.Sleep, at work in an iteration, or has returned (wg.Done).       *)
(***************************************************************************)
Tasks == {"heartbeat", "birdConfigSync", "rtt"}

\* tasks whose Run has not returned: what wg.Wait() waits for
TasksRunning == {t \in Tasks : taskPc[t] # "returned"}

\* BirdConfigSync.Run begins with time.Sleep(30 * time.Second); the other
\* tasks enter their select loop
InitShutdown ==
    /\ ctxDone = FALSE
    /\ taskPc = [t \in Tasks |-> IF t = "birdConfigSync" THEN "sleep" ELSE "select"]
    /\ sdPc = "serving"
    /\ sdClock = 0
    /\ birdPoolClosed = FALSE

\* case <-ticker.C: an iteration starts (the ticker is not ready at the
\* moment the context is cancelled)
TaskTick(t) ==
    /\ taskPc[t] = "select"
    /\ ~ctxDone
    /\ taskPc' = [taskPc EXCEPT ![t] = "work"]
    /\ UNCHANGED <<ctxDone, sdPc, sdClock, birdPoolClosed>>

\* case <-ctx.Done(): Run returns
TaskSeesDone(t) ==
    /\ taskPc[t] = "select"
    /\ ctxDone
    /\ taskPc' = [taskPc EXCEPT ![t] = "returned"]
    /\ UNCHANGED <<ctxDone, sdPc, sdClock, birdPoolClosed>>

\* the iteration ends: RTT's measure pauses with time.Sleep(100ms) after its
\* connect attempt, the other tasks go back to their select
TaskWorkEnds(t) ==
    /\ taskPc[t] = "work"
    /\ taskPc' = [taskPc EXCEPT ![t] = IF t = "rtt" THEN "sleep" ELSE "select"]
    /\ UNCHANGED <<ctxDone, sdPc, sdClock, birdPoolClosed>>

\* time.Sleep returns, after its full duration whatever the context:
\* BirdConfigSync.Run goes on to its initial s.Sync(ctx), RTT back to the loop
TaskSleepEnds(t) ==
    /\ taskPc[t] = "sleep"
    /\ taskPc' = [taskPc EXCEPT ![t] = IF t = "birdConfigSync" THEN "work" ELSE "select"]
    /\ UNCHANGED <<ctxDone, sdPc, sdClock, birdPoolClosed>>

\* a signal or a server error arrives: cancel(), then shutdownCtx is created
ShutdownCancel ==
    /\ sdPc = "serving"
    /\ ctxDone' = TRUE
    /\ sdClock' = 0
    /\ sdPc' = "cancelled"
    /\ UNCHANGED <<taskPc, birdPoolClosed>>

\* server.Shutdown(shutdownCtx) returns
ShutdownServer ==
    /\ sdPc = "cancelled"
    /\ sdPc' = "wait"
    /\ UNCHANGED <<ctxDone, taskPc, sdClock, birdPoolClosed>>

\* time passes on shutdownCtx
ShutdownClock ==
    /\ sdPc \in {"cancelled", "wait"}
    /\ sdClock < ShutdownTicks
    /\ sdClock' = sdClock + 1
    /\ UNCHANGED <<ctxDone, taskPc, sdPc, birdPoolClosed>>

\* the final select is ready: waitChan is closed or shutdownCtx has expired
WaitOver_Always == TRUE
WaitOver == TasksRunning = {} \/ sdClock >= ShutdownTicks

\* case <-waitChan / case <-shutdownCtx.Done(): main goes on to return
ShutdownWaitEnds ==
    /\ sdPc = "wait"
    /\ WaitOver
    /\ sdPc' = "return"
    /\ UNCHANGED <<ctxDone, taskPc, sdClock, birdPoolClosed>>

\* main returns: the deferred birdPool.Close() runs
ShutdownClosePool ==
    /\ sdPc = "return"
    /\ birdPoolClosed' = TRUE
    /\ sdPc' = "stopped"
    /\ UNCHANGED <<ctxDone, taskPc, sdClock>>

NextShutdown ==
    \/ \E t \in Tasks : TaskTick(t) /\ UNCHANGED <<notAgent, replyVars, maintVars, renderVars, hbVars>>
    \/ \E t \in Tasks : TaskSeesDone(t) /\ UNCHANGED <<notAgent, replyVars, maintVars, renderVars, hbVars>>
    \/ \E t \in Tasks : TaskWorkEnds(t) /\ UNCHANGED <<notAgent, replyVars, maintVars, renderVars, hbVars>>
    \/ \E t \in Tasks : TaskSleepEnds(t) /\ UNCHANGED <<notAgent, replyVars, maintVars, renderVars, hbVars>>
    \/ ShutdownCancel /\ UNCHANGED <<notAgent, replyVars, maintVars, renderVars, hbVars>>
    \/ ShutdownServer /\ UNCHANGED <<notAgent, replyVars, maintVars, renderVars, hbVars>>
    \/ ShutdownClock /\ UNCHANGED <<notAgent, replyVars, maintVars, renderVars, hbVars>>
    \/ ShutdownWaitEnds /\ UNCHANGED <<notAgent, replyVars, maintVars, renderVars, hbVars>>
    \/ ShutdownClosePool /\ UNCHANGED <<notAgent, replyVars, maintVars, renderVars, hbVars>>

(***************************************************************************)
(* maintenance.State: Enter and Exit, each run under s.mu from start to    *)
(* end, so one call is one step.                                           *)
(***************************************************************************)
\* the eBGP protocols 'show protocols' can list (names starting with dn42_)
EBGPPeers == {"dn42_a", "dn42_b"}

InitMaint ==
    /\ enabled = FALSE
    /\ enteredAt = 0
    /\ disabledPeers = {}
    /\ mtNow = 1
    /\ mtCall = <<"none", FALSE>>
    /\ mtBefore = <<FALSE, 0, {}>>
    /\ mtCmds = 0

\* Enter: "if s.enabled { return nil }"
EnterReturnsEarly_Never == FALSE
EnterReturnsEarly == enabled

\* Enter(): show protocols, "disable <peer>" for every eBGP peer (a failing
\* one is skipped), then the flag and the timestamp are set
MaintEnter ==
    /\ mtCall' = <<"Enter", enabled>>
    /\ mtBefore' = <<enabled, enteredAt, disabledPeers>>
    /\ IF EnterReturnsEarly
       THEN /\ mtCmds' = 0
            /\ UNCHANGED <<enabled, enteredAt, disabledPeers>>
       ELSE \/ \* getEBGPPeers fails: the error is returned
               /\ mtCmds' = 1
               /\ UNCHANGED <<enabled, enteredAt, disabledPeers>>
            \/ \E peers \in SUBSET EBGPPeers : \E ok \in SUBSET peers :
                  /\ mtCmds' = 1 + Cardinality(peers)
                  /\ disabledPeers' = ok
                  /\ enabled' = TRUE
                  /\ enteredAt' = mtNow
    /\ UNCHANGED mtNow

\* Exit(): "enable <peer>" for every recorded peer, then the state is cleared
MaintExit ==
    /\ mtCall' = <<"Exit", enabled>>
    /\ mtBefore' = <<enabled, enteredAt, disabledPeers>>
    /\ IF ~enabled
       THEN /\ mtCmds' = 0
            /\ UNCHANGED <<enabled, enteredAt, disabledPeers>>
       ELSE /\ mtCmds' = Cardinality(disabledPeers)
            /\ enabled' = FALSE
            /\ enteredAt' = 0
            /\ disabledPeers' = {}
    /\ UNCHANGED mtNow

\* time passes
MaintTick ==
    /\ mtNow < MaxTime
    /\ mtNow' = mtNow + 1
    /\ UNCHANGED <<enabled, enteredAt, disabledPeers, mtCall, mtBefore, mtCmds>>

NextMaint ==
    \/ MaintEnter /\ UNCHANGED <<notAgent, replyVars, shutdownVars, renderVars, hbVars>>
    \/ MaintExit /\ UNCHANGED <<notAgent, replyVars, shutdownVars, renderVars, hbVars>>
    \/ MaintTick /\ UNCHANGED <<notAgent, replyVars, shutdownVars, renderVars, hbVars>>

(***************************************************************************)
(* Rendering of generated config files: IBGPSync.generateConfig            *)
(* (ibgp_N.conf) and BirdConfigSync.renderFilters (filters.conf).  A file  *)
(* is absent, holds what the current input renders to ("new"), holds an    *)
(* earlier rendering ("old"), is empty, or holds the beginning of a        *)
(* rendering ("partial").                                                  *)
(***************************************************************************)
RenderTargets == {"ibgp", "filters"}

InitRender ==
    /\ fileState = [f \in RenderTargets |-> "absent"]
    /\ rnCall = <<"none", "none">>
    /\ rnBefore = "absent"

\* generateConfig: os.Create(filename), then ibgpTemplate.Execute(f, data)
\* writes into the file just created or truncated
GenerateConfig ==
    /\ rnBefore' = fileState["ibgp"]
    /\ \/ \* os.Create fails
          /\ rnCall' = <<"ibgp", "create_fails">>
          /\ UNCHANGED fileState
       \/ \* Execute fails after writing nothing or a part of the output
          /\ rnCall' = <<"ibgp", "execute_fails">>
          /\ \E left \in {"empty", "partial"} :
                fileState' = [fileState EXCEPT !["ibgp"] = left]
       \/ /\ rnCall' = <<"ibgp", "ok">>
          /\ fileState' = [fileState EXCEPT !["ibgp"] = "new"]

\* renderFilters: tmpl.Execute(&buf, cfg), then os.WriteFile(path, buf.Bytes())
RenderFilters ==
    /\ rnBefore' = fileState["filters"]
    /\ \/ \* Execute fails: nothing has touched the file
          /\ rnCall' = <<"filters", "execute_fails">>
          /\ UNCHANGED fileState
       \/ \* os.WriteFile fails: on open, or after truncating or writing a part
          /\ rnCall' = <<"filters", "write_fails">>
          /\ \E left \in {fileState["filters"], "empty", "partial"} :
                fileState' = [fileState EXCEPT !["filters"] = left]
       \/ /\ rnCall' = <<"filters", "ok">>
          /\ fileState' = [fileState EXCEPT !["filters"] = "new"]

\* the peer data or the bundle changes: what is on disk is no longer what a
\* rendering would produce
RenderInputChanges ==
    /\ \E f \in RenderTargets : fileState[f] = "new"
    /\ fileState' = [f \in RenderTargets |->
                        IF fileState[f] = "new" THEN "old" ELSE fileState[f]]
    /\ rnCall' = <<"none", "none">>
    /\ UNCHANGED rnBefore

NextRender ==
    \/ GenerateConfig /\ UNCHANGED <<notAgent, replyVars, shutdownVars, maintVars, hbVars>>
    \/ RenderFilters /\ UNCHANGED <<notAgent, replyVars, shutdownVars, maintVars, hbVars>>
    \/ RenderInputChanges /\ UNCHANGED <<notAgent, replyVars, shutdownVars, maintVars, hbVars>>

(***************************************************************************)
(* Heartbeat.sendHeartbeat: the public addresses a heartbeat carries.      *)
(***************************************************************************)
\* address families, and the addresses the lookup service can return
Families == {"4", "6"}
PublicIPs == {"a", "b"}

InitHeartbeat ==
    /\ cachedIP = [f \in Families |-> ""]
    /\ reportedIP = [f \in Families |-> ""]
    /\ cpIP = [f \in Families |-> ""]
    /\ hbCarried = [f \in Families |-> ""]
    /\ hbChanged = [f \in Families |-> FALSE]

\* sendHeartbeat: getIPsForHeartbeat refreshes the cache when the interval
\* has passed (fetched[f] = "" when it has not, or the lookup failed), picks
\* the addresses that differ from the reported ones and marks them reported;
\* then the request is sent, and is received by the CP or not
SendHeartbeat ==
    \E fetched \in [Families -> PublicIPs \cup {""}], delivered \in BOOLEAN :
        LET cached == [f \in Families |->
                          IF fetched[f] # "" THEN fetched[f] ELSE cachedIP[f]]
            carried == [f \in Families |->
                          IF cached[f] # reportedIP[f] THEN cached[f] ELSE ""]
        IN  /\ cachedIP' = cached
            /\ reportedIP' = cached
            /\ hbCarried' = carried
            /\ hbChanged' = [f \in Families |-> cached[f] # cpIP[f]]
            /\ cpIP' = [f \in Families |->
                           IF delivered /\ carried[f] # "" THEN carried[f]
                           ELSE cpIP[f]]

NextHeartbeat ==
    \/ SendHeartbeat /\ UNCHANGED <<notAgent, replyVars, shutdownVars, maintVars, renderVars>>

InitAll ==
    /\ InitPool /\ InitBreaker /\ InitSync /\ InitExec /\ InitHttp /\ InitConfigure
    /\ InitBirdConfig /\ InitIBGP /\ InitMesh /\ InitRtt
    /\ InitReply /\ InitShutdown /\ InitMaint /\ InitRender /\ InitHeartbeat

SpecPool == InitAll /\ [][NextPool]_vars

SpecBreaker == InitAll /\ [][NextBreaker]_vars

SpecSync == InitAll /\ [][NextSync]_vars

SpecExec == InitAll /\ [][NextExec]_vars

SpecHttp == InitAll /\ [][NextHttp]_vars

SpecConfigure == InitAll /\ [][NextConfigure]_vars

SpecBirdConfig == InitAll /\ [][NextBirdConfig]_vars

SpecIBGP == InitAll /\ [][NextIBGP]_vars

SpecMesh == InitAll /\ [][NextMesh]_vars

SpecReply == InitAll /\ [][NextReply]_vars

SpecShutdown == InitAll /\ [][NextShutdown]_vars

SpecMaint == InitAll /\ [][NextMaint]_vars

SpecRender == InitAll /\ [][NextRender]_vars

SpecHeartbeat == InitAll /\ [][NextHeartbeat]_vars

(***************************************************************************)
(* C1: for any interleaving of concurrent Execute calls the number of      *)
(* connections checked out (acquired and not yet released or discarded)    *)
(* never exceeds max_size.                                                 *)
(***************************************************************************)
C1_InUseBounded == Cardinality(InUse) <= MaxSize

(***************************************************************************)
(* C2: a pool connection is held by at most one caller at a time: no two   *)
(* callers hold the same connection, and a connection a caller holds is    *)
(* neither idle in the channel nor closed under it.                        *)
(***************************************************************************)
C2_ExclusiveHold ==
    /\ \A c1 \in Callers : \A c2 \in Callers \ {c1} :
          held[c1] # Nil => held[c1] # held[c2]
    /\ \A c \in Callers :
          held[c] # Nil => held[c] \notin SeqToSet(connections) /\ held[c] \in open

\* two callers hold connections, one of them handed out from the idle channel
\* after another caller had put it back, while Close has begun
C2_Witness ==
    \E c1 \in Callers : \E c2 \in Callers \ {c1} :
        /\ held[c1] # Nil /\ via[c1] = "chan"
        /\ held[c2] # Nil
        /\ held[c1] > PoolSize
        /\ closed

(***************************************************************************)
(* C7: from Closed the breaker becomes Open exactly when failure_threshold *)
(* failures have been recorded with no success between them; it is never   *)
(* Closed with a failure count >= failure_threshold; and an Allow() made   *)
(* while Open, before open_duration has elapsed since the trip, returns    *)
(* ErrCircuitOpen.                                                         *)
(***************************************************************************)
C7_TripOnThreshold ==
    /\ [](cbState = "closed" =>
            failureCount < FailureThreshold /\ failureCount = consec)
    /\ [][ /\ (cbState = "closed" /\ cbState' = "open") =>
                 consec' = FailureThreshold
           /\ (cbState = "closed" /\ consec' = FailureThreshold) =>
                 cbState' = "open"
           /\ \A k \in CbCallers :
                 (Allow(k) /\ cbState = "open" /\ now < tripTime + OpenDuration) =>
                     allowRes'[k] = "ErrCircuitOpen"
         ]_vars

\* the breaker has just tripped on the threshold and has denied a call
C7_Witness ==
    /\ cbState = "open"
    /\ now = 0
    /\ consec = FailureThreshold
    /\ \E k \in CbCallers : allowRes[k] = "ErrCircuitOpen"

(***************************************************************************)
(* C8: while Open every Allow() returns ErrCircuitOpen and leaves the      *)
(* breaker Open until the clock is later than last_failure +               *)
(* open_duration; an Allow() after that instant moves the breaker to       *)
(* HalfOpen and is permitted.                                              *)
(***************************************************************************)
C8_OpenUntilElapsed ==
    [][ \A k \in CbCallers :
          (Allow(k) /\ cbState = "open") =>
              IF now > lastFailure + OpenDuration
              THEN cbState' = "halfopen" /\ allowRes'[k] = "nil" /\ cbCall'[k] # "idle"
              ELSE cbState' = "open" /\ allowRes'[k] = "ErrCircuitOpen"
                   /\ cbCall'[k] = "idle"
      ]_vars

\* one caller was denied while Open, another made the move to HalfOpen
C8_Witness ==
    /\ cbState = "halfopen"
    /\ now > lastFailure + OpenDuration
    /\ \E k \in CbCallers : cbCall[k] = "probe" /\ allowRes[k] = "nil"
    /\ \E k \in CbCallers : cbCall[k] = "idle" /\ allowRes[k] = "ErrCircuitOpen"

(***************************************************************************)
(* C9: while the breaker is HalfOpen the number of calls Allow() has       *)
(* permitted in this HalfOpen period and whose outcome is not yet recorded *)
(* never exceeds half_open_max, counting the call whose Allow() made the   *)
(* Open to HalfOpen transition.                                            *)
(***************************************************************************)
C9_ProbesBounded ==
    cbState = "halfopen" =>
        Cardinality({k \in CbCallers : cbCall[k] = "probe"}) <= HalfOpenMaxRequests

(***************************************************************************)
(* C10: in HalfOpen any recorded failure moves the breaker to Open; a      *)
(* recorded success moves it to Closed exactly when the successes recorded *)
(* since HalfOpen was entered reach success_threshold; apart from Reset    *)
(* the breaker leaves HalfOpen in no other way.                            *)
(***************************************************************************)
C10_HalfOpenExits ==
    /\ [](cbState = "halfopen" => hoSucc < SuccessThreshold)
    /\ [][ /\ \A k \in CbCallers :
                 (RecordFailure(k) /\ cbState = "halfopen") => cbState' = "open"
           /\ \A k \in CbCallers :
                 (RecordSuccess(k) /\ cbState = "halfopen") =>
                     /\ cbState' \in {"closed", "halfopen"}
                     /\ cbState' = "closed" <=> hoSucc' = SuccessThreshold
           /\ (cbState = "halfopen" /\ cbState' # "halfopen") =>
                 \/ \E k \in CbCallers : RecordFailure(k)
                 \/ \E k \in CbCallers : RecordSuccess(k)
                 \/ Reset
         ]_vars

\* the breaker tripped, went HalfOpen and was closed by success_threshold successes
C10_Witness ==
    /\ cbState = "closed"
    /\ hoSucc = SuccessThreshold
    /\ tripTime > ZeroTime
    /\ \A k \in CbCallers : cbCall[k] = "idle"

(***************************************************************************)
(* C3: in any session-sync iteration the report "active" is sent for a     *)
(* session only if every step of its setup path succeeded in that          *)
(* iteration: tunnel interface created, peer config rendered, BIRD         *)
(* reconfigure accepted, firewall port opened.                             *)
(***************************************************************************)
C3_ActiveOnlyAfterFullSetup ==
    \A u \in UUIDs :
        <<u, "active">> \in reports =>
            /\ <<u, "CreateInterface", TRUE>> \in log
            /\ <<u, "GenerateSession", TRUE>> \in log
            /\ <<u, "Configure", TRUE>> \in log
            /\ <<u, "AllowPort", TRUE>> \in log

\* no executor step for u failed in the latest iteration
NoFailedStep(u) ==
    \A step \in {"CreateInterface", "GenerateSession", "Configure",
                 "RemoveSession", "DeleteInterface"} : <<u, step, FALSE>> \notin log

(***************************************************************************)
(* C4: for every session fetched with status Deleted, Disabled or          *)
(* QueuedForDelete, after at most two session-sync iterations with         *)
(* successful fetches (whose executor steps did not fail) none of its      *)
(* tunnel interface, peer config file or firewall port remains.            *)
(***************************************************************************)
C4_TeardownWithinTwo ==
    \A u \in UUIDs :
        (syncPc = "idle" /\ lastSync = "ok" /\ streak[u] = <<"teardown", 2>>
            /\ NoFailedStep(u)) =>
            u \notin ifaces /\ u \notin peerFiles /\ u \notin fwPorts

(***************************************************************************)
(* C5: in every session-sync iteration with a successful fetch, for each   *)
(* UUID in the local session map but not in the fetched list the delete    *)
(* path is executed (peer config removed, BIRD reconfigured, tunnel        *)
(* interface deleted) before the local map is replaced by the fetched one. *)
(***************************************************************************)
C5_OrphansDeleted ==
    (syncPc = "idle" /\ lastSync = "ok") =>
        \A u \in orphans :
            /\ \E ok \in BOOLEAN : <<u, "RemoveSession", ok>> \in log
            /\ \E ok \in BOOLEAN : <<u, "Configure", ok>> \in log
            /\ TeardownDeletesInterface(u) =>
                  \E ok \in BOOLEAN : <<u, "DeleteInterface", ok>> \in log

(***************************************************************************)
(* C6: for every session that two consecutive successful session-sync      *)
(* iterations observe with status Active, after the second iteration its   *)
(* tunnel interface exists, its peer config file exists and its firewall   *)
(* port is open.                                                           *)
(***************************************************************************)
C6_ActiveHasArtifacts ==
    \A u \in UUIDs :
        (syncPc = "idle" /\ lastSync = "ok" /\ streak[u] = <<"active", 2>>) =>
            u \in ifaces /\ u \in peerFiles /\ u \in fwPorts

(***************************************************************************)
(* C11 (as stated): Execute(fn) never invokes fn when Allow() denies the   *)
(* call, and then returns ErrCircuitOpen; when fn runs, its error is       *)
(* returned unchanged and recorded as exactly one failure, and a nil       *)
(* result is recorded as exactly one success.                              *)
(***************************************************************************)
C11_ExecuteOutcome_Orig ==
    \A k \in CbCallers :
        /\ allowRes[k] \notin {"none", "nil"} =>
               execOut[k] = <<"ErrCircuitOpen", 0, 0, 0>>
        /\ execOut[k][1] \in FnErrors => execOut[k] = <<execOut[k][1], 1, 0, 1>>
        /\ execOut[k][1] = "nil" => execOut[k] = <<"nil", 1, 1, 0>>

(***************************************************************************)
(* C11 (amended): Execute(fn) never invokes fn when Allow() denies the     *)
(* call, and then returns the error Allow() returned (ErrCircuitOpen while *)
(* Open, ErrTooManyRequests in HalfOpen at the probe limit) and records    *)
(* nothing; when fn runs, its error is returned unchanged and recorded as  *)
(* exactly one failure, and a nil result is returned as nil and recorded   *)
(* as exactly one success.                                                 *)
(***************************************************************************)
C11_ExecuteOutcome ==
    \A k \in CbCallers :
        /\ allowRes[k] \notin {"none", "nil"} =>
               execOut[k] = <<allowRes[k], 0, 0, 0>>
        /\ allowRes[k] = "nil" => execOut[k][2] = 1
        /\ execOut[k][1] \in FnErrors => execOut[k] = <<execOut[k][1], 1, 0, 1>>
        /\ execOut[k][1] = "nil" => execOut[k] = <<"nil", 1, 1, 0>>
        /\ execOut[k][1] \in {"none", "running", "nil", "ErrCircuitOpen",
                               "ErrTooManyRequests"} \cup FnErrors
        /\ execOut[k][1] = "running" <=> cbCall[k] # "idle"

\* one Execute was denied in Open, one returned fn's error, one returned nil
C11_Witness ==
    \E k1 \in CbCallers, k2 \in CbCallers, k3 \in CbCallers :
        /\ execOut[k1] = <<"ErrCircuitOpen", 0, 0, 0>>
        /\ execOut[k2][1] \in FnErrors
        /\ execOut[k3] = <<"nil", 1, 1, 0>>

(***************************************************************************)
(* C12: the retrying HTTP client issues another attempt only after a       *)
(* transport error, a 5xx response or a 429 response; any 2xx, 3xx or      *)
(* other 4xx response is returned to the caller at once and is never       *)
(* retried.                                                                *)
(***************************************************************************)
C12_RetryOnlyRetryable ==
    /\ (hRequests > 0 /\ hPc \in {"check", "send", "wait"}) =>
           \/ hLast[1] = "err"
           \/ hLast[2] \in 500..599
           \/ hLast[2] = 429
    /\ (hLast[1] = "resp" /\ hLast[2] \in (200..499) \ {429}) =>
           hPc = "done" /\ hRet = hLast

\* a retry was made, and then a 404 response was returned to the caller
C12_Witness ==
    /\ hPc = "done"
    /\ hRequests = 2
    /\ hRet = <<"resp", 404>>

(***************************************************************************)
(* C13 (as stated): one call to Do issues at most max_retries + 1 requests *)
(* and then returns; when every attempt is retryable it issues exactly     *)
(* max_retries + 1 requests and returns an error to the caller.            *)
(***************************************************************************)
C13_AttemptsBounded_Orig ==
    /\ hRequests <= hCfg.MaxRetries + 1
    /\ (hPc = "done" /\ hRet[1] # "resp") =>
           hRequests = hCfg.MaxRetries + 1

(***************************************************************************)
(* C13 (amended): one call to Do issues at most max_retries + 1 requests   *)
(* and then returns; when every attempt is retryable, the request's        *)
(* context is not cancelled and rewinding the body does not fail, it       *)
(* issues exactly max_retries + 1 requests and returns an error to the     *)
(* caller.                                                                 *)
(***************************************************************************)
C13_AttemptsBounded ==
    /\ hRequests <= hCfg.MaxRetries + 1
    /\ hPc \in {"send", "wait"} => hRequests <= hCfg.MaxRetries
    /\ (hPc = "done" /\ hRet[1] # "resp" /\ hCancelAt = "none"
            /\ hRet[1] # "ErrGetBody") =>
           /\ hRequests = hCfg.MaxRetries + 1
           /\ hRet[1] \in {"ErrAllRetriesFailed", "ErrServerErrors"}

\* max_retries = 2: three requests, all answered 5xx, and Do returned an error
C13_Witness ==
    /\ hPc = "done"
    /\ hCfg.MaxRetries = 2
    /\ hRequests = 3
    /\ hRet[1] = "ErrServerErrors"
    /\ hCancelAt = "none"

(***************************************************************************)
(* C14: if the request's context is cancelled while Do is waiting between  *)
(* attempts, Do returns a cancellation error without waiting out the       *)
(* remaining delay (the return is possible at once, the timer need not     *)
(* fire), and no request is issued after the cancellation.                 *)
(***************************************************************************)
C14_CancelAbortsWait ==
    /\ []((hPc = "wait" /\ hCancelAt = "wait") => ENABLED HttpWaitCancelled)
    /\ []((hPc = "done" /\ hCancelAt = "wait") =>
              hRet[1] \in {"ErrContext", "ErrRequestCancelled"})
    /\ [][hCancelAt = "wait" => hRequests' = hRequests]_vars

\* cancelled during a wait whose timer never fired; Do returned ctx.Err()
C14_Witness ==
    /\ hPc = "done"
    /\ hCancelAt = "wait"
    /\ ~hTimer
    /\ hRet[1] = "ErrContext"

(***************************************************************************)
(* C15: with jitter 0, the wait before the k-th retry (k = 1, 2, ...) is   *)
(* exactly min(max_delay, initial_delay * multiplier^(k-1)); for initial   *)
(* delay 100 ms and multiplier 2 the waits are 100, 200, 400 ms (1, 2, 4   *)
(* time units).                                                            *)
(***************************************************************************)
C15_BackoffDelays ==
    hCfg.Jitter = 0 =>
        /\ \A k \in 1..Len(hWaits) :
               LET grown == hCfg.InitialDelay * Pow(hCfg.Multiplier, k - 1)
               IN hWaits[k] = IF hCfg.MaxDelay < grown THEN hCfg.MaxDelay ELSE grown
        /\ (hCfg.InitialDelay = 1 /\ hCfg.Multiplier = 2 /\ hCfg.MaxDelay >= 4) =>
               \A k \in 1..Len(hWaits) : k <= 3 => hWaits[k] = <<1, 2, 4>>[k]

\* three waits of 100, 200 and 400 ms were made with jitter 0
C15_Witness ==
    /\ hCfg.Jitter = 0
    /\ hCfg.InitialDelay = 1
    /\ hCfg.Multiplier = 2
    /\ hWaits = <<1, 2, 4>>

(***************************************************************************)
(* C16: when the first attempt of Execute fails with a write or read       *)
(* error, the command is retried once on a freshly opened connection, not  *)
(* one taken from the idle set: the connection a retry attempt uses was    *)
(* dialled for it.                                                         *)
(***************************************************************************)
C16_RetryOnFreshConn ==
    \A c \in Callers :
        (pc[c] = "io" /\ retries[c] = 0 /\ held[c] # Nil) => via[c] = "dial"

(***************************************************************************)
(* C17: after Close() has returned, every connection that was idle has     *)
(* been closed and no connection is put back (the idle set stays empty,    *)
(* only connections held by in-flight Execute calls are open), so once     *)
(* all in-flight Execute calls have finished no connection remains open.   *)
(***************************************************************************)
C17_ClosedPoolHoldsNothing ==
    closePc = "done" =>
        /\ connections = <<>>
        /\ open \subseteq InUse
        /\ (\A c \in Callers : pc[c] = "idle") => open = {}

\* Close returned while an Execute was in flight; that call has since
\* released its connection, and nothing is open
C17_Witness ==
    /\ closePc = "done"
    /\ lateRel
    /\ \A c \in Callers : pc[c] = "idle"
    /\ open = {}

(***************************************************************************)
(* C18: when the "configure" command itself is delivered and answered,     *)
(* Configure() returns an error if and only if the BIRD response contains  *)
(* a line beginning with a four-digit code whose first digit is 8 or 9.    *)
(***************************************************************************)
C18_ConfigureErrorIffErrorCode ==
    cfgPc = "answered" =>
        (cfgRet = "err" <=>
            \E i \in DOMAIN Split(cfgResp) :
                LET line == Split(cfgResp)[i]
                IN /\ Len(line) >= 4
                   /\ \A k \in 1..4 : line[k] \in Digits
                   /\ line[1] \in {"8", "9"})

(***************************************************************************)
(* C19: for every session fetched with status Problem, the session-sync    *)
(* iteration runs the setup path for it and then sends exactly one status  *)
(* report: "active" if the setup succeeded, otherwise "problem".           *)
(***************************************************************************)
C19_ProblemRunsSetup ==
    \A u \in UUIDs :
        (syncPc = "idle" /\ lastSync = "ok" /\ sessions[u] = StatusProblem) =>
            /\ \E ok \in BOOLEAN : <<u, "GenerateSession", ok>> \in log
            /\ Cardinality({r \in reports : r[1] = u}) = 1
            /\ \A r \in reports : r[1] = u =>
                   IF <<u, "GenerateSession", TRUE>> \in log /\ NoFailedStep(u)
                   THEN r[2] = "active"
                   ELSE r[2] = "problem"

(***************************************************************************)
(* C20: if two consecutive session-sync iterations fetch the same session  *)
(* list, no step of the second iteration changes external state: it        *)
(* creates or deletes no interface, writes or removes no peer file,        *)
(* changes no firewall rule, issues no BIRD reconfigure and sends no       *)
(* status report.                                                          *)
(***************************************************************************)
C20_UnchangedFetchNoChange ==
    [][ (syncPc = "process" /\ remote = sessions) =>
            /\ ifaces' = ifaces
            /\ peerFiles' = peerFiles
            /\ fwPorts' = fwPorts
            /\ reports' = reports
            /\ \A e \in log' \ log :
                   e[2] \notin {"Configure", "GenerateSession", "CreateInterface"}
      ]_vars

(***************************************************************************)
(* C21: within one session-sync iteration BIRD configure is invoked at     *)
(* most once, however many sessions were set up or torn down.              *)
(***************************************************************************)
C21_ConfigureOncePerIteration ==
    Cardinality({e \in log : e[2] = "Configure"}) <= 1

(***************************************************************************)
(* C22: a bird-config-sync iteration that fetches a bundle whose hash      *)
(* equals the last-applied hash writes no file and issues no reconfigure;  *)
(* across two consecutive fetches that return the same hash the filter     *)
(* and community files are written exactly once.                           *)
(* As stated the second half fails: when a render of the first iteration   *)
(* fails the hash is not stored and the second iteration writes again, and *)
(* when the hash was already the last-applied one nothing is written.      *)
(* Amended: the second half holds when the first of the two iterations     *)
(* fetched a hash other than the last-applied one and all its renders      *)
(* succeeded.                                                              *)
(***************************************************************************)
\* how often the latest two iterations with a fetch wrote this file
WritesOf(file) ==
    (IF file \in bcsPrev.written THEN 1 ELSE 0)
    + (IF file \in bcsCur.written THEN 1 ELSE 0)

\* the latest two fetches returned the same hash
SameHashTwice == bcsPrev.hash # "" /\ bcsPrev.hash = bcsCur.hash

SkipsOnEqualHash ==
    (bcsCur.hash # "" /\ bcsCur.hash = bcsCur.last)
        => (bcsCur.written = {} /\ bcsCur.configure = "none")

C22_SameHashWritesOnce_Orig ==
    /\ SkipsOnEqualHash
    /\ SameHashTwice =>
          (WritesOf("filters.conf") = 1 /\ WritesOf("moenet_communities.conf") = 1)

C22_SameHashWritesOnce ==
    /\ SkipsOnEqualHash
    /\ (SameHashTwice /\ bcsPrev.hash # bcsPrev.last
                      /\ bcsPrev.written = SeqToSet(ConfFiles)) =>
          (WritesOf("filters.conf") = 1 /\ WritesOf("moenet_communities.conf") = 1)

C22_Witness ==
    /\ SameHashTwice
    /\ bcsPrev.written = SeqToSet(ConfFiles)
    /\ bcsCur.last = bcsCur.hash
    /\ bcsCur.written = {}

(***************************************************************************)
(* C23: in every bird-config-sync iteration whose fetch succeeds, the      *)
(* bundle's iBGP peer list replaces the peer set used by iBGP-sync,        *)
(* whatever the list contains: after the iteration the peer set is the     *)
(* set of node ids of the fetched list (empty when the list is empty).     *)
(***************************************************************************)
C23_PeerListReplacesSet ==
    bcsCur.hash # "" => ibgpPeers = {bcsPeers[i] : i \in DOMAIN bcsPeers}

(***************************************************************************)
(* C24: if a bird-config-sync iteration fails partway (a render fails or   *)
(* the reconfigure is rejected), the next iteration that fetches the same  *)
(* bundle applies it again: unless a render fails again, it writes the     *)
(* three files and issues the reconfigure.                                 *)
(***************************************************************************)
FailedPartway(rec) ==
    /\ rec.hash # "" /\ rec.hash # rec.last
    /\ rec.written # SeqToSet(ConfFiles) \/ rec.configure = "rejected"

C24_FailedBundleAppliedAgain ==
    (SameHashTwice /\ FailedPartway(bcsPrev) /\ bcsRet = "nil")
        => (bcsCur.written = SeqToSet(ConfFiles) /\ bcsCur.configure # "none")

(***************************************************************************)
(* C25: after every iBGP-sync iteration the iBGP peer files on disk are    *)
(* exactly one per node id of the current peer set other than the local    *)
(* node.  Checked for the iterations in which no file operation fails.     *)
(***************************************************************************)
C25_FilesMatchPeerSet ==
    [][IBGPSyncClean => ibgpFiles' = ibgpPeers \ {LocalNodeID}]_vars

(***************************************************************************)
(* C26: if node N is absent from the most recent mesh snapshot obtained by *)
(* mesh-sync, then after the next iBGP-sync iteration no iBGP peer file    *)
(* for N exists.  Checked for the iterations in which no file operation    *)
(* fails.                                                                  *)
(***************************************************************************)
C26_AbsentNodeHasNoFile ==
    [][(IBGPSyncClean /\ meshRan)
          => \A n \in NodeIDs \ meshPeers : n \notin ibgpFiles']_vars

(***************************************************************************)
(* C27: an iBGP-sync iteration issues a BIRD reconfigure if and only if it *)
(* rendered at least one peer file or removed at least one stale file.     *)
(* Checked for the iterations in which no file operation fails.            *)
(***************************************************************************)
C27_ReconfigureIffChanged ==
    (ibgpIter.ran /\ ibgpIter.clean) =>
        ((ibgpIter.configure # "none")
            <=> (ibgpIter.rendered # {} \/ ibgpIter.removed # {}))

(***************************************************************************)
(* C28: no mesh-driven iteration acts on the entry of the local node:      *)
(* mesh-sync creates no tunnel for it, iBGP-sync renders no file for it,   *)
(* and RTT never measures its loopback address.                            *)
(***************************************************************************)
C28_SelfExcluded ==
    /\ LocalNodeID \notin meshIfaces
    /\ LocalNodeID \notin ibgpFiles
    /\ rttMeasured \cap TargetsOf({LocalNodeID}) = {}

C30_ResultsAreLatestIteration ==
    rttMeasured # {} => (rttResults = rttMeasured /\ rttBatch = rttMeasured)

(***************************************************************************)
(* C40: in every reachable state of the circuit breaker, for any           *)
(* interleaving of Allow, RecordSuccess, RecordFailure and Reset, the      *)
(* half-open counter satisfies 0 <= halfOpenCount <= HalfOpenMaxRequests.  *)
(***************************************************************************)
C40_HalfOpenCountInRange ==
    0 <= halfOpenCount /\ halfOpenCount <= HalfOpenMaxRequests

(***************************************************************************)
(* C36: the agent reports 'deleted' for a session only if, in that         *)
(* iteration, its peer config file was removed and its tunnel interface    *)
(* was deleted without error; if a teardown step fails, no 'deleted'       *)
(* report is sent for the session in that iteration.                       *)
(***************************************************************************)
C36_DeletedOnlyAfterTeardown ==
    \A u \in UUIDs :
        <<u, "deleted">> \in reports =>
            /\ <<u, "RemoveSession", FALSE>> \notin log
            /\ <<u, "DeleteInterface", FALSE>> \notin log

\* C37: an Execute called after Close() has returned ends with an error; it
\* never reaches the command I/O holding a nil connection and never panics.
C37_ExecuteAfterCloseErrors ==
    \A c \in Callers :
        lateExec[c] =>
            /\ pc[c] # "panic"
            /\ (pc[c] = "io" => held[c] # Nil)

\* C38: whatever the interleaving of release calls with one Close(), no
\* release puts a connection on the channel once the channel is closed, and
\* when Close() has returned every connection still open is held by an
\* Execute in flight: a released connection was closed by release or drained.
C38_ReleaseNeverSendsOnClosed ==
    [][ /\ (chanClosed => SeqToSet(connections') \subseteq SeqToSet(connections))
        /\ (closePc' = "done" =>
               open' \subseteq ({held'[c] : c \in Callers} \ {Nil})) ]_vars

\* a release ran after Close() returned while another Execute still holds
\* its connection
C38_Witness ==
    /\ closePc = "done"
    /\ lateRel
    /\ InUse # {}
    /\ open = InUse

\* C39: each response returned by Execute is the complete reply to that
\* call's own command, and the connection it releases holds no unread line:
\* a later command never receives leftover lines of an earlier reply.
C39_ResponseIsOwnCompleteReply ==
    rdPc = "ok" =>
        /\ rdResult = ReplyTo(cmdSeq, rdReply)
        /\ reader = <<>>

\* C31: on shutdown the root context is cancelled first, then the HTTP
\* server is shut down, then main waits until every background task has
\* returned or the shutdown timeout has expired, and only after that wait
\* has ended is the BIRD pool closed.
C31_ShutdownOrder ==
    [][ /\ (sdPc' = "cancelled" /\ sdPc # "cancelled" =>
               sdPc = "serving" /\ ctxDone' /\ ~birdPoolClosed')
        /\ (sdPc' = "wait" /\ sdPc # "wait" => sdPc = "cancelled" /\ ctxDone)
        /\ (sdPc' = "return" /\ sdPc # "return" =>
               sdPc = "wait" /\ (TasksRunning = {} \/ sdClock >= ShutdownTicks))
        /\ (birdPoolClosed' /\ ~birdPoolClosed => sdPc = "return" /\ ctxDone)
        /\ (~ctxDone' => sdPc' = "serving" /\ ~birdPoolClosed') ]_vars

\* the pool is closed after the timeout expired with a task still running
C31_Witness ==
    /\ birdPoolClosed
    /\ sdClock >= ShutdownTicks
    /\ TasksRunning # {}

\* C32: once the root context is cancelled no task starts new work, and a
\* sleep a task is in is interrupted: the task never comes out of the sleep
\* into further work or waiting, it returns.
C32_CancelInterruptsSleep ==
    [][ ctxDone =>
          \A t \in Tasks :
              /\ (taskPc'[t] = "work" => taskPc[t] = "work")
              /\ (taskPc[t] = "sleep" => taskPc'[t] \in {"sleep", "returned"}) ]_vars

\* C33: Enter() called while maintenance is enabled and Exit() called while
\* it is disabled issue no BIRD command and leave the enabled flag, the
\* entered-at timestamp and the list of disabled peers as they were.
C33_RepeatedEnterExitNoOp ==
    mtCall \in {<<"Enter", TRUE>>, <<"Exit", FALSE>>} =>
        /\ mtCmds = 0
        /\ <<enabled, enteredAt, disabledPeers>> = mtBefore

\* Enter() was called, at a later time, with maintenance enabled and a peer
\* recorded as disabled
C33_Witness ==
    /\ mtCall = <<"Enter", TRUE>>
    /\ enabled
    /\ disabledPeers # {}
    /\ enteredAt < mtNow

\* C34: when rendering a generated config file fails, the target file on
\* disk is left exactly as it was before the call: not created, truncated
\* or partly written.
C34_FailedRenderLeavesFile ==
    rnCall[2] = "execute_fails" => fileState[rnCall[1]] = rnBefore

\* C35: a heartbeat carries a public address of a family exactly when the
\* cached address differs from the one carried by the last heartbeat the CP
\* received; a changed address is included until it has been delivered.
C35_CarriesIPIffCPLacksIt ==
    \A f \in Families : (hbCarried[f] # "") <=> hbChanged[f]

=============================================================================
